---------------------------- MODULE Spec2Model ----------------------------
(***************************************************************************)
(* A model of the ConSTRain genotyping engine (acg-team/ConSTRain):        *)
(*   - partitions(n): the iterative integer-partition generator            *)
(*   - estimate_genotype and its helpers most_likely_gt_idx, find_plateaus *)
(*   - allele_length_from_cigar and extract_allele_lengths                 *)
(*   - set_cn_from_karyotpe, set_cn_from_cnvs and load_tandem_repeats      *)
(*   - the parallel run: the chunks of main and the loop of run            *)
(*   - read_cnvs and read_trs, the readers of the BED files                *)
(* Every component has its own specification (SpecPart, SpecGt, SpecCigar, *)
(* SpecExtract, SpecLoad, SpecRun, SpecReadCnvs, SpecReadTrs); the         *)
(* variables of the other components stay at their idle values.            *)
(***************************************************************************)
EXTENDS Integers, Sequences, FiniteSets, TLC

VARIABLES
    \* ---- partitions(n) (genotyping.rs) ----
    p_n,            \* the argument n
    p_a,            \* the work array a[0..n]
    p_k,            \* the index k into a
    results,        \* the matrix being filled, rows 0..N_PARTITIONS[n]-1
    results_idx,    \* the row written next
    p_writes,       \* the row indices written so far, in order (history)
    p_pc,           \* "loop", "done", "panic" or "idle"
    \* ---- estimate_genotype (genotyping.rs) ----
    tr_region,      \* the TandemRepeat being genotyped
    min_norm_depth, \* f32
    max_norm_depth, \* Option<f32>
    partitions_map, \* copy number -> matrix of partitions
    gt_call,        \* result and locals of the call of estimate_genotype (history)
    \* ---- allele_length_from_cigar (lib.rs) ----
    cigar,          \* the CIGAR operations the loop has taken so far
    starting_pos,   \* the read's aligned start
    tr_start,       \* the locus [tr_start, tr_end)
    tr_end,
    current_pos,    \* the cursor on the reference
    tr_region_len,  \* the accumulated allele length
    cigar_pc,       \* "loop", "done" (Ok returned), "err" or "idle"
    \* ---- extract_allele_lengths (lib.rs) ----
    extract_region, \* the locus (tr_region of extract_allele_lengths)
    flank,
    record,         \* the read the iterator delivered last: None before the first
    read_lengths,   \* the local map allele_lengths
    prev_lengths,   \* history: read_lengths before the last read
    last_outcome,   \* history: where the loop body left for the last read
    n_reads,        \* history: reads delivered
    n_counted,      \* history: reads that reached the increment
    extract_pc,     \* "loop", "done" (Ok returned), "err" (Err returned) or "idle"
    \* ---- load_tandem_repeats (io.rs) ----
    karyotype,      \* contig -> baseline copy number, for the contigs it has
    cnv_source,     \* None, or Some source of copy number variants
    max_cn,
    repeat_buffer,
    copy_number_buffer,
    cnv_map,        \* contig -> its list of copy number variants
    load_i,         \* position of `for tr_region in &mut repeat_buffer`
    observed_copy_numbers,
    after_karyotype,\* history: each locus as set_cn_from_karyotpe left it
    cn_events,      \* history: per locus, what was applied to it, in order
    cnv_exit,       \* history: per locus, how the loop of set_cn_from_cnvs ended
    load_pc,        \* "load_repeats", "load_cnvs", "cnv_loop", "collect", "done", "err", "idle"
    \* ---- the parallel run: main (bin/ConSTRain.rs), run (lib.rs) ----
    tr_regions,     \* the locus vector, indexed from 1
    run_cnv_regions,\* cnv_regions
    threads,        \* cli.threads
    worker,         \* per thread of the pool: [pc, chunk, pos]
    claimed,        \* the chunks a thread has taken
    run_input,      \* history: the locus vector as it was handed to the run
    visits,         \* history: per locus, the threads that ran the loop body on it
    outcomes,       \* history: per locus, where the loop body left
    run_log,        \* history: per chunk, the loci in the order they were processed
    open_handles,   \* per thread: which of htsfile, header and idx it holds open
    hts_log,        \* history: per chunk, the calls on iterators and on the file
    \* ---- read_cnvs (io/bed.rs) ----
    read_cnv_map,   \* cnv_map: contig -> the regions pushed so far
    read_cn_buffer, \* observed_cn_buffer
    read_records,   \* history: the records deserialized so far
    read_cnvs_pc,   \* "reading", "ok", "err", "idle"
    \* ---- read_trs (io/bed.rs) ----
    ploidy,         \* the ploidy json: contig -> copy number
    tr_buffer,      \* the loci pushed so far
    tr_cn_buffer,   \* observed_cn_buffer
    tr_records,     \* history: the records deserialized so far
    read_trs_pc,    \* "reading", "ok", "err", "idle"
    \* ---- range_overlap (utils.rs) ----
    ov_a,           \* a_start, a_end
    ov_b,           \* b_start, b_end
    ov_ab,          \* the result of range_overlap(a, b)
    ov_ba,          \* the result of range_overlap(b, a)
    ov_pc           \* "call", "swapped", "done", "idle"

partVars == <<p_n, p_a, p_k, results, results_idx, p_writes, p_pc>>
gtVars == <<tr_region, min_norm_depth, max_norm_depth, partitions_map, gt_call>>

cigarVars == <<cigar, starting_pos, tr_start, tr_end, current_pos, tr_region_len, cigar_pc>>

extractVars == <<extract_region, flank, record, read_lengths, prev_lengths, last_outcome,
                 n_reads, n_counted, extract_pc>>

loadVars == <<karyotype, cnv_source, max_cn, repeat_buffer, copy_number_buffer, cnv_map,
              load_i, observed_copy_numbers, after_karyotype, cn_events, cnv_exit, load_pc>>

runVars == <<tr_regions, run_cnv_regions, threads, worker, claimed, run_input, visits,
             outcomes, run_log, open_handles, hts_log>>

readCnvVars == <<read_cnv_map, read_cn_buffer, read_records, read_cnvs_pc>>

readTrVars == <<ploidy, tr_buffer, tr_cn_buffer, tr_records, read_trs_pc>>

ovVars == <<ov_a, ov_b, ov_ab, ov_ba, ov_pc>>

vars == <<partVars, gtVars, cigarVars, extractVars, loadVars,
          runVars, readCnvVars, readTrVars, ovVars>>

(***************************************************************************)
(* General helpers                                                         *)
(***************************************************************************)
Max(x, y) == IF x >= y THEN x ELSE y
Min(x, y) == IF x <= y THEN x ELSE y
Abs(x) == IF x < 0 THEN -x ELSE x

RECURSIVE SumTo(_, _)
\* f[0] + ... + f[m-1] for a function f on 0..m-1
SumTo(f, m) == IF m = 0 THEN 0 ELSE f[m - 1] + SumTo(f, m - 1)

(***************************************************************************)
(* partitions(n)                                                           *)
(***************************************************************************)
\* Bound of SpecPart: the largest n partitions(n) is run for.
MaxPartN == 9

\* utils.rs: number of partitions of 0..50
N_PARTITIONS ==
    <<1, 1, 2, 3, 5, 7, 11, 15, 22, 30, 42, 56, 77, 101, 135, 176, 231, 297,
      385, 490, 627, 792, 1002, 1255, 1575, 1958, 2436, 3010, 3718, 4565,
      5604, 6842, 8349, 10143, 12310, 14883, 17977, 21637, 26015, 31185,
      37338, 44583, 53174, 63261, 75175, 89134, 105558, 124754, 147273,
      173525, 204226>>

\* N_PARTITIONS[n] of the source (0-based there)
NPartitionsOf(n) == N_PARTITIONS[n + 1]

RECURSIVE InnerWhile(_, _, _, _)
\* while x <= y { a[k] = x; y -= x; k += 1; }
InnerWhile(a, k, x, y) ==
    IF x <= y
    THEN InnerWhile([a EXCEPT ![k] = x], k + 1, x, y - x)
    ELSE [a |-> a, k |-> k, y |-> y]

\* Mutant of WriteRow: a[..=k] written without .rev()
WriteRowNotReversed(row, a, k) ==
    [i \in DOMAIN row |-> IF i <= k THEN a[i] ELSE row[i]]

\* The row a[..=k] reversed, written over the first k+1 cells of a row.
WriteRow(row, a, k) ==
    [i \in DOMAIN row |-> IF i <= k THEN a[k - i] ELSE row[i]]

\* PartitionsEntry without the early return for n = 0: a[1] = n is out of bounds
PartitionsEntryNoEarlyReturn(n) ==
    IF n = 0
    THEN [n |-> 0, a |-> [i \in 0..0 |-> 0], k |-> 1,
          results |-> [r \in 0..0 |-> <<>>], results_idx |-> 0,
          writes |-> <<>>, pc |-> "panic"]
    ELSE [n |-> n,
          a |-> [i \in 0..n |-> IF i = 1 THEN n ELSE 0],
          k |-> 1,
          results |-> [r \in 0..(NPartitionsOf(n) - 1) |-> [i \in 0..(n - 1) |-> 0]],
          results_idx |-> NPartitionsOf(n) - 1,
          writes |-> <<>>,
          pc |-> "loop"]

\* State of partitions(n) when the `while k != 0` loop is first reached.
PartitionsEntry(n) ==
    IF n = 0
    THEN [n |-> 0, a |-> <<>>, k |-> 0,
          results |-> [r \in 0..0 |-> <<>>], results_idx |-> 0,
          writes |-> <<>>, pc |-> "done"]
    ELSE [n |-> n,
          a |-> [i \in 0..n |-> IF i = 1 THEN n ELSE 0],
          k |-> 1,
          results |-> [r \in 0..(NPartitionsOf(n) - 1) |-> [i \in 0..(n - 1) |-> 0]],
          results_idx |-> NPartitionsOf(n) - 1,
          writes |-> <<>>,
          pc |-> "loop"]

\* PartitionsIter with results_idx left where it is after a write
PartitionsIterSameRow(st) ==
    LET x  == st.a[st.k - 1] + 1
        y  == st.a[st.k] - 1
        w  == InnerWhile(st.a, st.k - 1, x, y)
        a2 == [w.a EXCEPT ![w.k] = x + w.y]
        k2 == w.k
    IN  IF k2 > st.n - 1
        THEN [st EXCEPT !.a = a2, !.k = k2, !.pc = "panic"]
        ELSE [st EXCEPT !.a = a2, !.k = k2,
                        !.results = [st.results EXCEPT ![st.results_idx] = WriteRow(@, a2, k2)],
                        !.writes = Append(st.writes, st.results_idx),
                        !.pc = IF k2 = 0 THEN "done" ELSE "loop"]

\* One iteration of the `while k != 0` loop.
PartitionsIter(st) ==
    LET x  == st.a[st.k - 1] + 1
        y  == st.a[st.k] - 1
        w  == InnerWhile(st.a, st.k - 1, x, y)
        a2 == [w.a EXCEPT ![w.k] = x + w.y]
        k2 == w.k
    IN  IF k2 > st.n - 1
        THEN [st EXCEPT !.a = a2, !.k = k2, !.pc = "panic"]   \* index out of bounds
        ELSE LET res2 == [st.results EXCEPT
                            ![st.results_idx] = WriteRow(@, a2, k2)]
                 wr2  == Append(st.writes, st.results_idx)
             IN  IF st.results_idx = 0
                 THEN [st EXCEPT !.a = a2, !.k = k2, !.results = res2,
                                 !.writes = wr2, !.pc = "done"]     \* checked_sub -> None: break
                 ELSE [st EXCEPT !.a = a2, !.k = k2, !.results = res2,
                                 !.writes = wr2,
                                 !.results_idx = st.results_idx - 1,
                                 !.pc = IF k2 = 0 THEN "done" ELSE "loop"]

RECURSIVE PartitionsRun(_)
PartitionsRun(st) == IF st.pc = "loop" THEN PartitionsRun(PartitionsIter(st)) ELSE st

\* partitions(n) panics instead of returning
partitions_panics(n) == PartitionsRun(PartitionsEntry(n)).pc = "panic"

\* partitions(n): the matrix returned, rows and columns 0-based.
partitions(n) == PartitionsRun(PartitionsEntry(n)).results

PartState ==
    [n |-> p_n, a |-> p_a, k |-> p_k, results |-> results,
     results_idx |-> results_idx, writes |-> p_writes, pc |-> p_pc]

SetPartState(st) ==
    /\ p_n' = st.n
    /\ p_a' = st.a
    /\ p_k' = st.k
    /\ results' = st.results
    /\ results_idx' = st.results_idx
    /\ p_writes' = st.writes
    /\ p_pc' = st.pc

(***************************************************************************)
(* Single-precision arithmetic.  An f32 value v is held as the integer     *)
(* v * 2^26; every value the engine computes here is a multiple of 2^-26   *)
(* below 32.  Results are rounded to 24 significant bits, ties to even,    *)
(* as IEEE-754 binary32 does.                                              *)
(***************************************************************************)
F32One == 2^26
F32Mant == 2^24

F32P25 == 2^25
F32P26 == 2^26
F32P27 == 2^27
F32P28 == 2^28
F32P29 == 2^29
F32P30 == 2^30

\* The unit in the last place of a magnitude m >= 2^24 (m < 2^31).
F32Ulp(m) ==
    IF m < F32P25 THEN 2
    ELSE IF m < F32P26 THEN 4
    ELSE IF m < F32P27 THEN 8
    ELSE IF m < F32P28 THEN 16
    ELSE IF m < F32P29 THEN 32
    ELSE IF m < F32P30 THEN 64
    ELSE 128

\* Round the exact magnitude m to 24 significant bits, ties to even
\* (sticky: a nonzero part below one unit was cut off before).
F32RoundMag(m, sticky) ==
    IF m < F32Mant
    THEN m
    ELSE LET u == F32Ulp(m)
             r == m % u
         IN  IF r = 0 /\ ~sticky THEN m
             ELSE LET q  == m \div u
                      up == \/ 2 * r > u
                            \/ 2 * r = u /\ (sticky \/ q % 2 = 1)
                  IN  (IF up THEN q + 1 ELSE q) * u

F32Round(x) == IF x < 0 THEN -F32RoundMag(-x, FALSE) ELSE F32RoundMag(x, FALSE)

\* `i as f32` for a small nonnegative integer i (exact)
F32FromInt(i) == i * F32One

\* `a as f32 / b as f32` for integers a >= 0, b > 0
F32Div(a, b) ==
    LET num == a * F32One
        q   == num \div b
        rem == num % b
    IN  IF rem = 0 THEN F32RoundMag(q, FALSE)
        ELSE IF q >= F32Mant THEN F32RoundMag(q, TRUE)
        ELSE IF 2 * rem > b \/ (2 * rem = b /\ q % 2 = 1) THEN q + 1 ELSE q

\* p * x for an integer-valued f32 p and an f32 x
F32Mul(p, x) == F32Round(p * x)
F32Sub(x, y) == F32Round(x - y)
F32Add(x, y) == F32Round(x + y)
F32Abs(x) == Abs(x)

\* f32::EPSILON = 2^-23
F32_EPSILON == 2^3

RECURSIVE F32SumTo(_, _)
\* lane.sum(): v[0] + v[1] + ... + v[m-1] accumulated left to right from 0.0
F32SumTo(v, m) == IF m = 0 THEN 0 ELSE F32Add(F32SumTo(v, m - 1), v[m - 1])

(***************************************************************************)
(* estimate_genotype (genotyping.rs) on a TandemRepeat (repeat.rs)         *)
(***************************************************************************)
\* Bounds of SpecGt
MaxCN == 6          \* copy numbers the partition map is built for: 0..MaxCN
MaxAlleles == 3     \* distinct allele lengths a histogram can hold
MaxDepth == 8       \* total number of reads of a histogram

None == <<>>
Some(x) == <<x>>
IsSome(o) == o # <<>>
Unwrap(o) == o[1]

AlleleLens == 1..MaxAlleles

\* make_partitions_map(copy_numbers): copy number -> partitions(copy number)
make_partitions_map(copy_numbers) == [cn \in copy_numbers |-> partitions(cn)]

\* The map built for all copy numbers 0..MaxCN (computed once).
PartitionsUpToMaxCN == make_partitions_map(0..MaxCN)

RECURSIVE MapTotal(_, _)
\* sum of the values of the map h over the keys ks
MapTotal(h, ks) ==
    IF ks = {} THEN 0
    ELSE LET x == CHOOSE x \in ks : TRUE IN h[x] + MapTotal(h, ks \ {x})

\* TandemRepeat::get_n_mapped_reads
get_n_mapped_reads(tr) ==
    IF IsSome(tr.allele_lengths)
    THEN Some(MapTotal(Unwrap(tr.allele_lengths), DOMAIN Unwrap(tr.allele_lengths)))
    ELSE None

\* TandemRepeat::get_norm_depth (an f32)
get_norm_depth(tr) ==
    IF IsSome(get_n_mapped_reads(tr))
    THEN Some(F32Div(Unwrap(get_n_mapped_reads(tr)), tr.copy_number))
    ELSE None

RECURSIVE FreqOrders(_, _)
\* count_vec.sort_unstable_by(|a, b| b.1.partial_cmp(&a.1)) on the tuples of the
\* map h over the keys ks: the orders of the keys it can leave, counts descending.
\* The HashMap yields its entries in any order and the sort is unstable, so keys
\* with equal counts can come out in any order.
FreqOrders(h, ks) ==
    IF ks = {} THEN {<<>>}
    ELSE UNION {{<<x>> \o rest : rest \in FreqOrders(h, ks \ {x})} :
                   x \in {y \in ks : \A z \in ks : h[y] >= h[z]}}

\* TandemRepeat::allele_freqs_as_ndarrays(Some("freq")): the possible results,
\* as sequences of allele lengths (the counts follow from the map).
allele_freqs_as_ndarrays(tr) ==
    IF IsSome(tr.allele_lengths)
    THEN FreqOrders(Unwrap(tr.allele_lengths), DOMAIN Unwrap(tr.allele_lengths))
    ELSE {<<>>}

\* zero_pad_if_shorter with the zeros put in front of the counts
zero_pad_if_shorter_in_front(arr, len, min_len) ==
    IF len < min_len
    THEN [i \in 0..(min_len - 1) |-> IF i < min_len - len THEN 0 ELSE arr[i - (min_len - len)]]
    ELSE arr

\* utils::zero_pad_if_shorter, arrays 0-based
zero_pad_if_shorter(arr, len, min_len) ==
    IF len < min_len
    THEN [i \in 0..(min_len - 1) |-> IF i < len THEN arr[i] ELSE 0]
    ELSE arr

\* Mutant of MinRows: max_by instead of min_by
MinRowsMaxBy(error_sums) ==
    LET sums == {<<r, error_sums[r]>> : r \in DOMAIN error_sums}
        max  == (CHOOSE m \in sums : \A q \in sums : m[2] >= q[2])[2]
    IN  {q[1] : q \in {m \in sums : F32Abs(F32Sub(m[2], max)) < F32_EPSILON}}

\* The rows whose error sum lies within f32::EPSILON of the minimum
\* (min_by total_cmp, then the filter_map over error_sums).
MinRows(error_sums) ==
    LET sums == {<<r, error_sums[r]>> : r \in DOMAIN error_sums}
        min  == (CHOOSE m \in sums : \A q \in sums : m[2] <= q[2])[2]
    IN  {q[1] : q \in {m \in sums : F32Abs(F32Sub(m[2], min)) < F32_EPSILON}}

\* most_likely_gt_idx: Some(row index) or None (an error)
most_likely_gt_idx(possible_gts, n_mapped_reads, copy_number, obs_distr) ==
    LET e_reads_per_allele == F32Div(n_mapped_reads, copy_number)
        errors(r) == [i \in 0..(copy_number - 1) |->
                         F32Abs(F32Sub(F32Mul(possible_gts[r][i], e_reads_per_allele),
                                       F32FromInt(obs_distr[i])))]
        error_sums == [r \in DOMAIN possible_gts |-> F32SumTo(errors(r), copy_number)]
        min == MinRows(error_sums)
    IN  IF Cardinality(min) = 1 THEN Some(CHOOSE r \in min : TRUE) ELSE None

RECURSIVE PlateauLoop(_, _, _, _, _)
\* the `for (i, val) in arr.slice(s![1..])` loop of find_plateaus from index i on
PlateauLoop(arr, len, i, current, plateaus) ==
    IF i >= len - 1
    THEN IF IsSome(current)
         THEN Append(plateaus, [start |-> Unwrap(current)[1], end |-> None])
         ELSE plateaus
    ELSE IF arr[i] = arr[i + 1]
         THEN IF IsSome(current)
              THEN PlateauLoop(arr, len, i + 1,
                               Some(<<Unwrap(current)[1], Unwrap(current)[2] + 1>>), plateaus)
              ELSE PlateauLoop(arr, len, i + 1, Some(<<i, i + 2>>), plateaus)
         ELSE IF IsSome(current)
              THEN PlateauLoop(arr, len, i + 1, None,
                               Append(plateaus, [start |-> Unwrap(current)[1],
                                                 end |-> Some(Unwrap(current)[2])]))
              ELSE PlateauLoop(arr, len, i + 1, None, plateaus)

\* Mutant of find_plateaus: a plateau still open at the end of arr is not pushed
find_plateaus_no_tail(arr, len) ==
    SelectSeq(PlateauLoop(arr, len, 0, None, <<>>), LAMBDA p : IsSome(p.end))

\* find_plateaus: the sequence of slices (end exclusive, None = to the end of arr)
find_plateaus(arr, len) == PlateauLoop(arr, len, 0, None, <<>>)

\* The positions a slice selects in an array of length len.
SlicePositions(p, len) ==
    p.start..((IF IsSome(p.end) THEN Unwrap(p.end) ELSE len) - 1)

\* PlateauConstant with every plateau accepted
PlateauConstantAlways(most_likely_gt, p, len) == TRUE

\* subarr.slice(s![1..]).iter().all(|v| *v == subarr[0])
PlateauConstant(most_likely_gt, p, len) ==
    \A i \in SlicePositions(p, len) : most_likely_gt[i] = most_likely_gt[p.start]

RECURSIVE SortByLength(_)
\* genotype.sort_unstable_by(|a, b| a.0.cmp(&b.0)) on a set of pairs with distinct lengths
SortByLength(pairs) ==
    IF pairs = {} THEN <<>>
    ELSE LET lo == CHOOSE x \in pairs : \A y \in pairs : x[1] <= y[1]
         IN  <<lo>> \o SortByLength(pairs \ {lo})

\* Mutant of GenotypePairs: the filter keeps multiplicity 0 (y >= 0)
GenotypePairsKeepZero(allele_lengths, nlen, most_likely_gt, cn) ==
    {<<allele_lengths[i + 1], most_likely_gt[i]>> : i \in 0..(Min(nlen, cn) - 1)}

\* allele_lengths.iter().zip(most_likely_gt.iter()).filter_map(y > 0): the pairs
\* (allele length, multiplicity) kept; nlen = allele_lengths.len()
GenotypePairs(allele_lengths, nlen, most_likely_gt, cn) ==
    {<<allele_lengths[i + 1], most_likely_gt[i]>> :
        i \in {j \in 0..(Min(nlen, cn) - 1) : most_likely_gt[j] > 0}}

\* Mutant of CarryAmbiguous: the test genotype.len() == copy_number is left out
CarryAmbiguousNoLen(genotype, cn, obs_distr, carry) ==
    obs_distr[cn - 1] = carry

\* genotype.len() == copy_number && obs_distr[copy_number - 1] == carry
CarryAmbiguous(genotype, cn, obs_distr, carry) ==
    /\ Cardinality(genotype) = cn
    /\ obs_distr[cn - 1] = carry

\* SetFilter with a locus without reads set back to PASS
SetFilterPassWithoutReads(tr, f) == [tr EXCEPT !.filter = IF f = "DP_ZERO" THEN "PASS" ELSE f]

\* the filter left as it was
SetFilterKeep(tr, f) == tr

\* `tr_region.filter = VcfFilter::..` before a bail!
SetFilter(tr, f) == [tr EXCEPT !.filter = f]

\* the depth test with a depth equal to the minimum rejected
DepthTooLowOrEqual(norm_depth, min_depth) == norm_depth <= min_depth

\* `if norm_depth < min_norm_depth`
DepthTooLow(norm_depth, min_depth) == norm_depth < min_depth

\* estimate_genotype, given the order `allele_lengths` the histogram came out of
\* allele_freqs_as_ndarrays in.  Returns the locus, the result and the locals.
estimate_genotype(tr, allele_lengths, min_depth, max_depth, pmap) ==
    LET cn        == tr.copy_number
        hist      == Unwrap(tr.allele_lengths)
        nlen      == Len(allele_lengths)
        counts    == [i \in 0..(nlen - 1) |-> hist[allele_lengths[i + 1]]]
        carry     == IF nlen > cn THEN Some(counts[cn]) ELSE None
        obs_distr == IF nlen < cn THEN zero_pad_if_shorter(counts, nlen, cn)
                     ELSE [i \in 0..(cn - 1) |-> counts[i]]
        possible_gts == pmap[cn]
        min       == most_likely_gt_idx(possible_gts, Unwrap(get_n_mapped_reads(tr)),
                                        cn, obs_distr)
        most_likely_gt == possible_gts[Unwrap(min)]
        plateaus  == find_plateaus(obs_distr, cn)
        genotype  == GenotypePairs(allele_lengths, nlen, most_likely_gt, cn)
        fail(f, stage, o, c, m, pl) ==
            [tr |-> SetFilter(tr, f), ret |-> "Err", stage |-> stage,
             allele_lengths |-> allele_lengths, obs_distr |-> o, carry |-> c,
             min |-> m, plateaus |-> pl]
    IN  IF cn = 0 THEN fail("CN_ZERO", "cn_zero", <<>>, None, None, <<>>)
        ELSE IF ~IsSome(get_norm_depth(tr))
             THEN fail("DP_ZERO", "dp_zero", <<>>, None, None, <<>>)
        ELSE IF DepthTooLow(Unwrap(get_norm_depth(tr)), min_depth)
             THEN fail("DP_OOR", "dp_low", <<>>, None, None, <<>>)
        ELSE IF IsSome(max_depth) /\ Unwrap(get_norm_depth(tr)) > Unwrap(max_depth)
             THEN fail("DP_OOR", "dp_high", <<>>, None, None, <<>>)
        ELSE IF cn \notin DOMAIN pmap
             THEN fail("CN_OOR", "cn_oor", obs_distr, carry, None, <<>>)
        ELSE IF ~IsSome(min) THEN fail("AMB_GT", "amb_min", obs_distr, carry, None, <<>>)
        ELSE IF \E i \in DOMAIN plateaus : ~PlateauConstant(most_likely_gt, plateaus[i], cn)
             THEN fail("AMB_GT", "amb_plateau", obs_distr, carry, min, plateaus)
        ELSE IF IsSome(carry) /\ CarryAmbiguous(genotype, cn, obs_distr, Unwrap(carry))
             THEN fail("AMB_GT", "amb_carry", obs_distr, carry, min, plateaus)
        ELSE [tr |-> [tr EXCEPT !.genotype = Some(SortByLength(genotype))],
              ret |-> "Ok", stage |-> "ok", allele_lengths |-> allele_lengths,
              obs_distr |-> obs_distr, carry |-> carry, min |-> min,
              plateaus |-> plateaus]

(***************************************************************************)
(* allele_length_from_cigar (lib.rs), range_overlap (utils.rs)             *)
(***************************************************************************)
\* Bounds of SpecCigar
MaxOps == 3         \* operations in a CIGAR
MaxOpLen == 2       \* length of one operation

\* rust_htslib::bam::record::Cigar
CigarKinds == {"Match", "Ins", "Del", "RefSkip", "SoftClip", "HardClip", "Pad", "Equal", "Diff"}
CigarOps == [kind : CigarKinds, len : 1..MaxOpLen]

\* cigar_utils::cigar_consumes_ref
cigar_consumes_ref(op) == op.kind \in {"Match", "Del", "RefSkip", "Equal", "Diff"}
\* cigar_utils::cigar_advances_tr_len
cigar_advances_tr_len(op) == op.kind \in {"Match", "Ins", "Equal", "Diff"}

\* range_overlap on half-open ranges: the + 1 left out
range_overlap_half_open(a_start, a_end, b_start, b_end) ==
    IF a_start > a_end \/ b_start > b_end
    THEN None
    ELSE Some(Max(0, Min(a_end, b_end) - Max(a_start, b_start)))

\* utils::range_overlap on closed ranges: Some(overlap), or None for the error
range_overlap(a_start, a_end, b_start, b_end) ==
    IF a_start > a_end \/ b_start > b_end
    THEN None
    ELSE Some(Max(0, Min(a_end, b_end) - Max(a_start, b_start) + 1))

\* CigarOpStep with an insertion counted wherever the cursor is
CigarOpStepInsAnywhere(op, st, s, e) ==
    LET consumes_r  == cigar_consumes_ref(op)
        advances_tr == cigar_advances_tr_len(op)
        ov == range_overlap(st.pos, st.pos + op.len - 1, s, e - 1)
    IN  IF consumes_r /\ ~advances_tr
        THEN [pos |-> st.pos + op.len, len |-> st.len, err |-> FALSE]
        ELSE IF ~consumes_r /\ advances_tr
        THEN [pos |-> st.pos, len |-> st.len + op.len, err |-> FALSE]
        ELSE IF consumes_r /\ advances_tr
        THEN IF IsSome(ov)
             THEN [pos |-> st.pos + op.len, len |-> st.len + Unwrap(ov), err |-> FALSE]
             ELSE [pos |-> st.pos, len |-> st.len, err |-> TRUE]
        ELSE [pos |-> st.pos, len |-> st.len, err |-> FALSE]

\* The body of `for op in cigar` up to the test `current_pos >= tr_end`,
\* on st = [pos, len]; err is set when range_overlap fails ('?').
CigarOpStep(op, st, s, e) ==
    LET consumes_r  == cigar_consumes_ref(op)
        advances_tr == cigar_advances_tr_len(op)
        ov == range_overlap(st.pos, st.pos + op.len - 1, s, e - 1)
    IN  IF consumes_r /\ ~advances_tr
        THEN [pos |-> st.pos + op.len, len |-> st.len, err |-> FALSE]
        ELSE IF ~consumes_r /\ advances_tr
        THEN [pos |-> st.pos,
              len |-> IF st.pos >= s THEN st.len + op.len ELSE st.len,
              err |-> FALSE]
        ELSE IF consumes_r /\ advances_tr
        THEN IF IsSome(ov)
             THEN [pos |-> st.pos + op.len, len |-> st.len + Unwrap(ov), err |-> FALSE]
             ELSE [pos |-> st.pos, len |-> st.len, err |-> TRUE]
        ELSE [pos |-> st.pos, len |-> st.len, err |-> FALSE]

RECURSIVE CigarWalk(_, _, _, _, _)
\* the loop of allele_length_from_cigar from operation i (1-based) on
CigarWalk(cig, i, st, s, e) ==
    IF i > Len(cig) THEN Some(st.len)
    ELSE LET nx == CigarOpStep(cig[i], st, s, e)
         IN  IF nx.err THEN None
             ELSE IF nx.pos >= e THEN Some(nx.len)
             ELSE CigarWalk(cig, i + 1, nx, s, e)

\* allele_length_from_cigar: Some(tr_region_len), or None for Err
allele_length_from_cigar(cig, pos, s, e) ==
    CigarWalk(cig, 1, [pos |-> pos, len |-> 0, err |-> FALSE], s, e)

(***************************************************************************)
(* extract_allele_lengths (lib.rs)                                         *)
(***************************************************************************)
\* Bound of SpecExtract
MaxReads == 3       \* reads the iterator delivers for the locus

Op(kind, len) == [kind |-> kind, len |-> len]

\* The CIGARs of the reads delivered for the locus
ReadCigars ==
    { <<Op("Match", 6)>>,
      <<Op("Match", 3), Op("Ins", 1), Op("Match", 3)>>,
      <<Op("Match", 3), Op("Ins", 2), Op("Match", 3)>>,
      <<Op("Match", 3), Op("Del", 1), Op("Match", 3)>>,
      <<Op("SoftClip", 2), Op("Match", 6)>>,
      <<Op("Match", 2), Op("RefSkip", 4)>>,
      <<Op("Equal", 3), Op("Diff", 1), Op("Equal", 3)>>,
      <<Op("Match", 6), Op("Ins", 2)>>,
      <<Op("Match", 3)>> }

ReadFlags == {"duplicate", "supplementary", "quality_check_failed"}

\* The records rhtslib_read can fill in
Records == [flags : SUBSET ReadFlags, pos : 0..3, cigar : ReadCigars]

\* Record::reference_end: the position after the last aligned reference base
reference_end(rec) ==
    LET rlen == SumTo([j \in 0..(Len(rec.cigar) - 1) |->
                          IF cigar_consumes_ref(rec.cigar[j + 1])
                          THEN rec.cigar[j + 1].len ELSE 0], Len(rec.cigar))
    IN  rec.pos + (IF rlen = 0 THEN 1 ELSE rlen)

\* the first `continue`: duplicate, supplementary or quality-check-failed reads
IgnoredRead(rec) ==
    \/ "duplicate" \in rec.flags
    \/ "supplementary" \in rec.flags
    \/ "quality_check_failed" \in rec.flags

\* NotEnclosing with the flank left out
NotEnclosingNoFlank(rec, ri, fl) ==
    rec.pos >= ri.start \/ reference_end(rec) <= ri.end

\* the second `continue`: the read does not enclose the locus and its flanks
NotEnclosing(rec, ri, fl) ==
    rec.pos >= ri.start - fl \/ reference_end(rec) <= ri.end + fl

\* allele_lengths.entry(tr_len).and_modify(|c| *c += 1.0).or_insert(1.0)
EntryIncrement(lens, tr_len) ==
    [x \in (DOMAIN lens) \cup {tr_len} |->
        IF x = tr_len THEN (IF x \in DOMAIN lens THEN lens[x] + 1 ELSE 1) ELSE lens[x]]

\* The body of the `while let` loop for a record that was read without error
ExtractStep(rec, lens, ri, fl) ==
    LET tr_len == allele_length_from_cigar(rec.cigar, rec.pos, ri.start, ri.end)
    IN  IF IgnoredRead(rec) THEN [lens |-> lens, outcome |-> "ignored"]
        ELSE IF NotEnclosing(rec, ri, fl) THEN [lens |-> lens, outcome |-> "not_enclosing"]
        ELSE IF ~IsSome(tr_len) THEN [lens |-> lens, outcome |-> "err"]
        ELSE IF Unwrap(tr_len) % ri.period # 0 THEN [lens |-> lens, outcome |-> "off_period"]
        ELSE [lens |-> EntryIncrement(lens, Unwrap(tr_len) \div ri.period),
              outcome |-> "counted"]

(***************************************************************************)
(* Locus loading: load_tandem_repeats (io.rs), set_cn_from_karyotpe and    *)
(* set_cn_from_cnvs (repeat.rs), get_ploidy (karyotype.rs)                 *)
(***************************************************************************)
\* Bounds of SpecLoad
MaxLoci == 2        \* loci in the repeat source
MaxCnvs == 2        \* copy number variants on a contig

Contigs == {"chr1", "chr2"}

\* Karyotype: a JSON object with a nonnegative integer for some contigs
Karyotypes == {[c \in S |-> IF c = "chr1" THEN 2 ELSE 1] : S \in SUBSET Contigs}

\* Karyotype::get_ploidy
get_ploidy(kar, contig) == IF contig \in DOMAIN kar THEN Some(kar[contig]) ELSE None

\* set_cn_from_karyotpe with the filter left alone when the contig is missing
set_cn_from_karyotpe_keep_filter(tr, kar) ==
    LET cn == get_ploidy(kar, tr.reference_info.seqname)
    IN  IF IsSome(cn) THEN [tr EXCEPT !.copy_number = Unwrap(cn)] ELSE tr

\* TandemRepeat::set_cn_from_karyotpe
set_cn_from_karyotpe(tr, kar) ==
    LET cn == get_ploidy(kar, tr.reference_info.seqname)
    IN  IF IsSome(cn)
        THEN [tr EXCEPT !.copy_number = Unwrap(cn)]
        ELSE [tr EXCEPT !.filter = "CN_MISSING"]

\* The reference coordinates the repeat source delivers
LoadRefInfos ==
    {[seqname |-> c, start |-> se[1], end |-> se[2], period |-> 1] :
        c \in Contigs, se \in {<<1, 2>>, <<2, 4>>, <<2, 3>>}}

\* The copy number variants a source can hold: start < end on positions 0..5
CnvRegions == [start : 0..5, end : 0..5, cn : {1, 3}]

WellFormedCnvs == {c \in CnvRegions : c.start < c.end}

RECURSIVE CnvListsFrom(_, _)
\* The lists read_cnvs accepts for one contig: each region starts at or after
\* the end of the one before it
CnvListsFrom(lo, n) ==
    {<<>>} \cup
    (IF n = 0 THEN {}
     ELSE UNION {{<<c>> \o rest : rest \in CnvListsFrom(c.end, n - 1)} :
                    c \in {r \in WellFormedCnvs : r.start >= lo}})

\* The maps load_cnvs can return: a contig is a key when it has a region
CnvMaps ==
    {[c \in {"chr1"} |-> l] : l \in CnvListsFrom(0, MaxCnvs) \ {<<>>}} \cup {<<>>}

\* the early stop with the start of the locus in the place of its end
CnvBeyondStart(cnv, tr) == cnv.start > tr.reference_info.start

\* `if cnv.start > self.reference_info.end { break; }`
CnvBeyond(cnv, tr) == cnv.start > tr.reference_info.end

RECURSIVE CnvLoop(_, _, _)
\* `for cnv in cnv_regions` from region i on: the locus and how the loop ended
CnvLoop(tr, cnv_regions, i) ==
    IF i > Len(cnv_regions) THEN [tr |-> tr, exit |-> "exhausted", at |-> i]
    ELSE LET cnv == cnv_regions[i]
             region_len == tr.reference_info.end - tr.reference_info.start
             overlap == range_overlap(tr.reference_info.start, tr.reference_info.end - 1,
                                      cnv.start, cnv.end - 1)
         IN  IF CnvBeyond(cnv, tr) THEN [tr |-> tr, exit |-> "beyond", at |-> i]
             ELSE IF ~IsSome(overlap) THEN CnvLoop(tr, cnv_regions, i + 1)
             ELSE IF Unwrap(overlap) = region_len
             THEN [tr |-> [tr EXCEPT !.copy_number = cnv.cn], exit |-> "full", at |-> i]
             ELSE IF Unwrap(overlap) > 0
             THEN [tr |-> [tr EXCEPT !.filter = "CN_MISSING"], exit |-> "partial", at |-> i]
             ELSE CnvLoop(tr, cnv_regions, i + 1)

\* TandemRepeat::set_cn_from_cnvs
set_cn_from_cnvs(tr, cnv_regions) == CnvLoop(tr, cnv_regions, 1)

RECURSIVE SortedSeq(_)
\* Vec::sort of the collected copy numbers
SortedSeq(S) ==
    IF S = {} THEN <<>>
    ELSE LET m == CHOOSE x \in S : \A y \in S : x <= y
         IN  <<m>> \o SortedSeq(S \ {m})

\* the filter with the cap itself left out
CopyNumbersBelow(buffer, cap) == {x \in buffer : x < cap}

\* copy_number_buffer.iter().filter_map(|x| if *x <= max_cn { Some(*x) } else { None })
CopyNumbersUpTo(buffer, cap) == {x \in buffer : x <= cap}

(***************************************************************************)
(* The parallel run: main (bin/ConSTRain.rs) cuts the locus vector into    *)
(* chunks, the threads of the pool take the chunks, and every chunk is     *)
(* worked through by the loop of run (lib.rs).                             *)
(***************************************************************************)
MaxRunLoci == 3
MaxThreads == 2

\* main: chunksize = tr_regions.len() / cli.threads + 1
chunksize(n, t) == n \div t + 1

\* par_chunks_mut(chunksize): the chunks are numbered from 1
NumChunks(n, t) == (n + chunksize(n, t) - 1) \div chunksize(n, t)

ChunkFirst(c, n, t) == (c - 1) * chunksize(n, t) + 1

\* ChunkLast with every chunk reaching one locus into the next chunk
ChunkLastOverlapping(c, n, t) == Min(n, c * chunksize(n, t) + 1)

ChunkLast(c, n, t) == Min(n, c * chunksize(n, t))

\* tr_cn_from_cnvs: one against all, the first region with an overlap decides
RECURSIVE TrCnLoop(_, _, _)
TrCnLoop(tr, regs, i) ==
    IF i > Len(regs) THEN [tr |-> tr, ret |-> "Ok"]
    ELSE LET cnv        == regs[i]
             ri         == tr.reference_info
             region_len == ri.end - ri.start
             overlap    == range_overlap(ri.start, ri.end - 1, cnv.start, cnv.end - 1)
         IN  IF ri.seqname # cnv.seqname THEN TrCnLoop(tr, regs, i + 1)
             ELSE IF ~IsSome(overlap) THEN [tr |-> tr, ret |-> "Err"]
             ELSE IF Unwrap(overlap) = region_len
                  THEN [tr |-> [tr EXCEPT !.copy_number = cnv.cn], ret |-> "Ok"]
             ELSE IF Unwrap(overlap) > 0
                  THEN [tr |-> [tr EXCEPT !.copy_number = 0], ret |-> "Ok"]
             ELSE TrCnLoop(tr, regs, i + 1)

tr_cn_from_cnvs(tr, regs) == TrCnLoop(tr, regs, 1)

\* What thread_setup acquires: the alignment file, its header and its index
Handles == {"htsfile", "header", "idx"}

\* Where thread_setup can fail: opening the file, loading the index (assert), the
\* reference of a CRAM file (missing, or not settable)
SetupFailures == {"open", "index", "reference"}

\* What thread_setup has acquired when it fails
OpenAtSetupFailure(failed) ==
    IF failed = "open" THEN {}
    ELSE IF failed = "index" THEN {"htsfile", "header"}
    ELSE Handles

\* htslib::hts_close(htsfile): the file is closed; nothing is called on header and idx
hts_close(open) == open \ {"htsfile"}

\* What rhtslib_fetch_by_str hands back: an iterator, or an error for a null iterator
FetchResults == {"itr", "null"}

\* What extract_allele_lengths does with the reads of the iterator: it fails on a
\* faulty read, or it has counted the enclosing reads in a map, which may be empty
ReadResults ==
    {[ret |-> "Err", lens |-> <<>>]} \cup
    {[ret |-> "Ok", lens |-> l] : l \in {<<>>, <<2>>}}

\* min_norm_depth of the run: the default of the command line, 1.0
RunMinNormDepth == F32One

\* The body of the loop of run for one locus, up to the call of estimate_genotype:
\* exit "none" means the body goes on to estimate_genotype with tr.
\* RunLocusFetch with the iterator left alone when extract_allele_lengths fails
RunLocusFetchLeakOnError(tr, cnvs, fetched, reads) ==
    LET cn == IF cnvs # <<>> THEN tr_cn_from_cnvs(tr, cnvs) ELSE [tr |-> tr, ret |-> "Ok"]
    IN  IF cn.ret = "Err" THEN [tr |-> cn.tr, exit |-> "cn_err", itr |-> <<>>]
        ELSE IF fetched = "null"
             THEN [tr |-> cn.tr, exit |-> "fetch_err", itr |-> <<"fetch_err">>]
        ELSE IF reads.ret = "Err"
             THEN [tr |-> cn.tr, exit |-> "extract_err", itr |-> <<"fetch_ok">>]
        ELSE IF reads.lens # <<>>
             THEN [tr |-> [cn.tr EXCEPT !.allele_lengths = Some(reads.lens)], exit |-> "none",
                   itr |-> <<"fetch_ok", "hts_itr_destroy">>]
        ELSE [tr |-> cn.tr, exit |-> "none", itr |-> <<"fetch_ok", "hts_itr_destroy">>]

\* itr: the calls on the iterator of the locus, in the order the body makes them
RunLocusFetch(tr, cnvs, fetched, reads) ==
    LET cn == IF cnvs # <<>> THEN tr_cn_from_cnvs(tr, cnvs) ELSE [tr |-> tr, ret |-> "Ok"]
    IN  IF cn.ret = "Err" THEN [tr |-> cn.tr, exit |-> "cn_err", itr |-> <<>>]
        ELSE IF fetched = "null"
             THEN [tr |-> cn.tr, exit |-> "fetch_err", itr |-> <<"fetch_err">>]
        ELSE IF reads.ret = "Err"
             THEN [tr |-> cn.tr, exit |-> "extract_err",
                   itr |-> <<"fetch_ok", "hts_itr_destroy">>]
        ELSE IF reads.lens # <<>>
             THEN [tr |-> [cn.tr EXCEPT !.allele_lengths = Some(reads.lens)], exit |-> "none",
                   itr |-> <<"fetch_ok", "hts_itr_destroy">>]
        ELSE [tr |-> cn.tr, exit |-> "none", itr |-> <<"fetch_ok", "hts_itr_destroy">>]

\* The whole body of the loop for one locus: the loci it can leave behind.
RunLocus(tr, cnvs, fetched, reads, pmap) ==
    LET f == RunLocusFetch(tr, cnvs, fetched, reads)
    IN  IF f.exit # "none" THEN {f}
        ELSE {[tr |-> r.tr, exit |-> IF r.ret = "Ok" THEN "ok" ELSE "estimate_err",
               itr |-> f.itr] :
                 r \in {estimate_genotype(f.tr, order, RunMinNormDepth, None, pmap) :
                           order \in allele_freqs_as_ndarrays(f.tr)}}

\* The loci handed to the run: locus i lies at [10 i, 10 i + 4) on chr1
RunRefInfo(i) == [seqname |-> "chr1", start |-> 10 * i, end |-> 10 * i + 4, period |-> 2]

RunLoci(i) ==
    {[reference_info |-> RunRefInfo(i), copy_number |-> cf[1], allele_lengths |-> None,
      genotype |-> None, filter |-> cf[2]] :
        cf \in {<<2, "PASS">>, <<2, "CN_MISSING">>}}

\* The CNV lists of the run: none; one region covering locus 1 and half of locus 2;
\* a region covering locus 3 followed by a region with no base (start = end)
RunCnvLists ==
    {<<>>,
     <<[seqname |-> "chr1", start |-> 8, end |-> 22, cn |-> 3]>>,
     <<[seqname |-> "chr1", start |-> 28, end |-> 36, cn |-> 2],
       [seqname |-> "chr1", start |-> 21, end |-> 21, cn |-> 3]>>}

\* main: the partitions of every copy number seen
RunPartitionsMap == make_partitions_map(0..3)

NChunks == NumChunks(Len(tr_regions), threads)
ChunkIndices(c) == ChunkFirst(c, Len(tr_regions), threads)..ChunkLast(c, Len(tr_regions), threads)
RunCompleted ==
    /\ threads > 0
    /\ claimed = 1..NChunks
    /\ \A t \in DOMAIN worker : worker[t].pc = "idle"

(***************************************************************************)
(* read_cnvs (io/bed.rs): the records of the CNV file, one after the other *)
(***************************************************************************)
MaxCnvRecords == 3

\* A deserialized record: seqname, start, end, cn.  Any pair of coordinates
\* deserializes; nothing in read_cnvs compares start and end of one record.
CnvRecords == [seqname : Contigs, start : 0..2, end : 0..2, cn : {1, 3}]

\* prev_cnv.end > cnv.start && prev_cnv.seqname == cnv.seqname
NotCoordinateSorted(prev_cnv, cnv) ==
    prev_cnv.end > cnv.start /\ prev_cnv.seqname = cnv.seqname

\* The body of the loop of read_cnvs for one record, on the map built so far
ReadCnvStep(m, cnv) ==
    IF cnv.seqname \in DOMAIN m
    THEN LET cnv_vec  == m[cnv.seqname]
             prev_cnv == cnv_vec[Len(cnv_vec)]
         IN  IF NotCoordinateSorted(prev_cnv, cnv)
             THEN [map |-> m, ret |-> "Err"]
             ELSE [map |-> [m EXCEPT ![cnv.seqname] = Append(cnv_vec, cnv)], ret |-> "Ok"]
    ELSE [map |-> [c \in DOMAIN m \cup {cnv.seqname} |->
                      IF c = cnv.seqname THEN <<cnv>> ELSE m[c]],
          ret |-> "Ok"]

(***************************************************************************)
(* read_trs (io/bed.rs): the records of the locus file, one after the other *)
(***************************************************************************)
MaxTrRecords == 2

\* A deserialized record (RepeatReferenceInfo): seqname, start, end, period
TrRecords == [seqname : Contigs, start : 0..1, end : 2..4, period : 1..2]

\* ploidy[&ref_info.seqname].as_u64().unwrap_or(0)
PloidyOrZero(pl, seqname) == IF seqname \in DOMAIN pl THEN pl[seqname] ELSE 0

\* The locus read_trs builds from a record
TrFromRecord(pl, ref_info) ==
    [reference_info |-> ref_info, copy_number |-> PloidyOrZero(pl, ref_info.seqname),
     allele_lengths |-> None, genotype |-> None]

\* get_reference_len: the assertion holds and the repeat count is returned, or it panics
get_reference_len(ref_info) ==
    IF (ref_info.end - ref_info.start) % ref_info.period = 0
    THEN Some((ref_info.end - ref_info.start) \div ref_info.period)
    ELSE None

(***************************************************************************)
(* range_overlap (utils.rs) called on its own                              *)
(***************************************************************************)
MaxCoord == 3
Coords == (0 - 1)..MaxCoord

(***************************************************************************)
(* Specifications                                                          *)
(***************************************************************************)
InitPart ==
    /\ p_n \in 0..MaxPartN
    /\ p_a = <<>>
    /\ p_k = 0
    /\ results = <<>>
    /\ results_idx = 0
    /\ p_writes = <<>>
    /\ p_pc = "entry"
    \* estimate_genotype is not running
    /\ tr_region = None
    /\ min_norm_depth = 0
    /\ max_norm_depth = None
    /\ partitions_map = <<>>
    /\ gt_call = None
    \* allele_length_from_cigar is not running
    /\ cigar = <<>>
    /\ starting_pos = 0
    /\ tr_start = 0
    /\ tr_end = 0
    /\ current_pos = 0
    /\ tr_region_len = 0
    /\ cigar_pc = "idle"
    \* extract_allele_lengths is not running
    /\ extract_region = None
    /\ flank = 0
    /\ record = None
    /\ read_lengths = <<>>
    /\ prev_lengths = <<>>
    /\ last_outcome = "none"
    /\ n_reads = 0
    /\ n_counted = 0
    /\ extract_pc = "idle"
    \* load_tandem_repeats is not running
    /\ karyotype = <<>>
    /\ cnv_source = None
    /\ max_cn = 0
    /\ repeat_buffer = <<>>
    /\ copy_number_buffer = {}
    /\ cnv_map = <<>>
    /\ load_i = 0
    /\ observed_copy_numbers = <<>>
    /\ after_karyotype = <<>>
    /\ cn_events = <<>>
    /\ cnv_exit = <<>>
    /\ load_pc = "idle"
    \* the parallel run is not running
    /\ tr_regions = <<>>
    /\ run_cnv_regions = <<>>
    /\ threads = 0
    /\ worker = <<>>
    /\ claimed = {}
    /\ run_input = <<>>
    /\ visits = <<>>
    /\ outcomes = <<>>
    /\ run_log = <<>>
    /\ open_handles = <<>>
    /\ hts_log = <<>>
    \* read_cnvs is not running
    /\ read_cnv_map = <<>>
    /\ read_cn_buffer = {}
    /\ read_records = <<>>
    /\ read_cnvs_pc = "idle"
    \* read_trs is not running
    /\ ploidy = <<>>
    /\ tr_buffer = <<>>
    /\ tr_cn_buffer = {}
    /\ tr_records = <<>>
    /\ read_trs_pc = "idle"
    \* range_overlap is not running
    /\ ov_a = <<0, 0>>
    /\ ov_b = <<0, 0>>
    /\ ov_ab = <<>>
    /\ ov_ba = <<>>
    /\ ov_pc = "idle"

\* One pass through the body of `while k != 0`.
\* partitions(n) up to the loop: the early return for n = 0, or the matrix of
\* zeros, the work array and k = 1
PartitionsStart ==
    /\ p_pc = "entry"
    /\ SetPartState(PartitionsEntry(p_n))
    /\ UNCHANGED <<gtVars, cigarVars, extractVars, loadVars, runVars, readCnvVars, readTrVars, ovVars>>

PartitionsLoop ==
    /\ p_pc = "loop"
    /\ SetPartState(PartitionsIter(PartState))
    /\ UNCHANGED <<gtVars, cigarVars, extractVars, loadVars, runVars, readCnvVars, readTrVars, ovVars>>

NextPart ==
    \/ PartitionsStart
    \/ PartitionsLoop

\* the loop runs as long as it can
SpecPartFair == InitPart /\ [][NextPart]_vars /\ WF_vars(NextPart)


SpecPart == InitPart /\ [][NextPart]_vars


\* The histograms a locus can hold: absent, or a nonempty map allele length -> count,
\* the allele lengths being 1..m (the code uses the lengths only to order the genotype).
\* Extraction stores counts >= 1; the FREQS field of a VCF record can hold a count 0.
Histograms ==
    {None} \cup
    {Some(h) : h \in {g \in UNION {[1..m -> 0..MaxDepth] : m \in AlleleLens} :
                          MapTotal(g, DOMAIN g) <= MaxDepth}}

\* A locus as locus loading leaves it, with a copy number and maybe a histogram.
GtLoci ==
    {[reference_info |-> [seqname |-> "chr1", start |-> 10, end |-> 16, period |-> 2],
      copy_number |-> cn, allele_lengths |-> h, genotype |-> None, filter |-> f] :
        cn \in 0..(MaxCN + 1), h \in Histograms, f \in {"PASS", "CN_MISSING"}}

InitGt ==
    /\ tr_region \in GtLoci
    /\ min_norm_depth \in {0, F32One}
    /\ max_norm_depth \in {None, Some(2 * F32One)}
    /\ partitions_map = PartitionsUpToMaxCN
    /\ gt_call = [ret |-> "none", stage |-> "none", before |-> tr_region,
                  allele_lengths |-> <<>>,
                  obs_distr |-> <<>>, carry |-> None, min |-> None, plateaus |-> <<>>]
    \* partitions is not running
    /\ p_n = 0
    /\ p_a = <<>>
    /\ p_k = 0
    /\ results = <<>>
    /\ results_idx = 0
    /\ p_writes = <<>>
    /\ p_pc = "idle"
    \* allele_length_from_cigar is not running
    /\ cigar = <<>>
    /\ starting_pos = 0
    /\ tr_start = 0
    /\ tr_end = 0
    /\ current_pos = 0
    /\ tr_region_len = 0
    /\ cigar_pc = "idle"
    \* extract_allele_lengths is not running
    /\ extract_region = None
    /\ flank = 0
    /\ record = None
    /\ read_lengths = <<>>
    /\ prev_lengths = <<>>
    /\ last_outcome = "none"
    /\ n_reads = 0
    /\ n_counted = 0
    /\ extract_pc = "idle"
    \* load_tandem_repeats is not running
    /\ karyotype = <<>>
    /\ cnv_source = None
    /\ max_cn = 0
    /\ repeat_buffer = <<>>
    /\ copy_number_buffer = {}
    /\ cnv_map = <<>>
    /\ load_i = 0
    /\ observed_copy_numbers = <<>>
    /\ after_karyotype = <<>>
    /\ cn_events = <<>>
    /\ cnv_exit = <<>>
    /\ load_pc = "idle"
    \* the parallel run is not running
    /\ tr_regions = <<>>
    /\ run_cnv_regions = <<>>
    /\ threads = 0
    /\ worker = <<>>
    /\ claimed = {}
    /\ run_input = <<>>
    /\ visits = <<>>
    /\ outcomes = <<>>
    /\ run_log = <<>>
    /\ open_handles = <<>>
    /\ hts_log = <<>>
    \* read_cnvs is not running
    /\ read_cnv_map = <<>>
    /\ read_cn_buffer = {}
    /\ read_records = <<>>
    /\ read_cnvs_pc = "idle"
    \* read_trs is not running
    /\ ploidy = <<>>
    /\ tr_buffer = <<>>
    /\ tr_cn_buffer = {}
    /\ tr_records = <<>>
    /\ read_trs_pc = "idle"
    \* range_overlap is not running
    /\ ov_a = <<0, 0>>
    /\ ov_b = <<0, 0>>
    /\ ov_ab = <<>>
    /\ ov_ba = <<>>
    /\ ov_pc = "idle"

\* A worker calls estimate_genotype on the locus.
EstimateGenotype ==
    /\ gt_call # None
    /\ gt_call.ret = "none"
    /\ \E allele_lengths \in allele_freqs_as_ndarrays(tr_region) :
          \E r \in {estimate_genotype(tr_region, allele_lengths, min_norm_depth,
                                       max_norm_depth, partitions_map)} :
              /\ tr_region' = r.tr
              /\ gt_call' = [ret |-> r.ret, stage |-> r.stage, before |-> tr_region,
                             allele_lengths |-> r.allele_lengths,
                             obs_distr |-> r.obs_distr, carry |-> r.carry,
                             min |-> r.min, plateaus |-> r.plateaus]
    /\ UNCHANGED <<min_norm_depth, max_norm_depth, partitions_map>>
    /\ UNCHANGED <<partVars, cigarVars, extractVars, loadVars, runVars, readCnvVars, readTrVars,
                   ovVars>>

NextGt == EstimateGenotype

SpecGt == InitGt /\ [][NextGt]_vars

\* allele_length_from_cigar is entered for a read that starts before the locus.
InitCigar ==
    /\ cigar = <<>>
    /\ starting_pos = 0
    /\ tr_start \in 1..2
    /\ tr_end \in (tr_start + 1)..(tr_start + 2)
    /\ current_pos = starting_pos
    /\ tr_region_len = 0
    /\ cigar_pc = "loop"
    \* partitions is not running
    /\ p_n = 0
    /\ p_a = <<>>
    /\ p_k = 0
    /\ results = <<>>
    /\ results_idx = 0
    /\ p_writes = <<>>
    /\ p_pc = "idle"
    \* estimate_genotype is not running
    /\ tr_region = None
    /\ min_norm_depth = 0
    /\ max_norm_depth = None
    /\ partitions_map = <<>>
    /\ gt_call = None
    \* extract_allele_lengths is not running
    /\ extract_region = None
    /\ flank = 0
    /\ record = None
    /\ read_lengths = <<>>
    /\ prev_lengths = <<>>
    /\ last_outcome = "none"
    /\ n_reads = 0
    /\ n_counted = 0
    /\ extract_pc = "idle"
    \* load_tandem_repeats is not running
    /\ karyotype = <<>>
    /\ cnv_source = None
    /\ max_cn = 0
    /\ repeat_buffer = <<>>
    /\ copy_number_buffer = {}
    /\ cnv_map = <<>>
    /\ load_i = 0
    /\ observed_copy_numbers = <<>>
    /\ after_karyotype = <<>>
    /\ cn_events = <<>>
    /\ cnv_exit = <<>>
    /\ load_pc = "idle"
    \* the parallel run is not running
    /\ tr_regions = <<>>
    /\ run_cnv_regions = <<>>
    /\ threads = 0
    /\ worker = <<>>
    /\ claimed = {}
    /\ run_input = <<>>
    /\ visits = <<>>
    /\ outcomes = <<>>
    /\ run_log = <<>>
    /\ open_handles = <<>>
    /\ hts_log = <<>>
    \* read_cnvs is not running
    /\ read_cnv_map = <<>>
    /\ read_cn_buffer = {}
    /\ read_records = <<>>
    /\ read_cnvs_pc = "idle"
    \* read_trs is not running
    /\ ploidy = <<>>
    /\ tr_buffer = <<>>
    /\ tr_cn_buffer = {}
    /\ tr_records = <<>>
    /\ read_trs_pc = "idle"
    \* range_overlap is not running
    /\ ov_a = <<0, 0>>
    /\ ov_b = <<0, 0>>
    /\ ov_ab = <<>>
    /\ ov_ba = <<>>
    /\ ov_pc = "idle"

\* One iteration of `for op in cigar`: the next operation of the CIGAR is op.
CigarOp ==
    /\ cigar_pc = "loop"
    /\ Len(cigar) < MaxOps
    /\ \E op \in CigarOps :
          LET nx == CigarOpStep(op, [pos |-> current_pos, len |-> tr_region_len,
                                     err |-> FALSE], tr_start, tr_end)
          IN  /\ cigar' = Append(cigar, op)
              /\ current_pos' = nx.pos
              /\ tr_region_len' = nx.len
              /\ cigar_pc' = IF nx.err THEN "err"
                             ELSE IF nx.pos >= tr_end THEN "done" ELSE "loop"
    /\ UNCHANGED <<starting_pos, tr_start, tr_end>>
    /\ UNCHANGED <<partVars, gtVars, extractVars, loadVars, runVars, readCnvVars, readTrVars, ovVars>>

\* The CIGAR has no further operation: the loop ends and Ok(tr_region_len) is returned.
CigarEnd ==
    /\ cigar_pc = "loop"
    /\ cigar_pc' = "done"
    /\ UNCHANGED <<cigar, starting_pos, tr_start, tr_end, current_pos, tr_region_len>>
    /\ UNCHANGED <<partVars, gtVars, extractVars, loadVars, runVars, readCnvVars, readTrVars, ovVars>>

NextCigar == CigarOp \/ CigarEnd

SpecCigar == InitCigar /\ [][NextCigar]_vars

\* extract_allele_lengths is entered with the reads of a locus that has no histogram.
InitExtract ==
    /\ \E per \in 1..2 :
          extract_region =
              [reference_info |-> [seqname |-> "chr1", start |-> 3, end |-> 5, period |-> per],
               copy_number |-> 2, allele_lengths |-> None, genotype |-> None,
               filter |-> "PASS"]
    /\ flank \in 0..1
    /\ record = None
    /\ read_lengths = <<>>
    /\ prev_lengths = <<>>
    /\ last_outcome = "none"
    /\ n_reads = 0
    /\ n_counted = 0
    /\ extract_pc = "loop"
    \* partitions is not running
    /\ p_n = 0
    /\ p_a = <<>>
    /\ p_k = 0
    /\ results = <<>>
    /\ results_idx = 0
    /\ p_writes = <<>>
    /\ p_pc = "idle"
    \* estimate_genotype is not running
    /\ tr_region = None
    /\ min_norm_depth = 0
    /\ max_norm_depth = None
    /\ partitions_map = <<>>
    /\ gt_call = None
    \* allele_length_from_cigar is not running
    /\ cigar = <<>>
    /\ starting_pos = 0
    /\ tr_start = 0
    /\ tr_end = 0
    /\ current_pos = 0
    /\ tr_region_len = 0
    /\ cigar_pc = "idle"
    \* load_tandem_repeats is not running
    /\ karyotype = <<>>
    /\ cnv_source = None
    /\ max_cn = 0
    /\ repeat_buffer = <<>>
    /\ copy_number_buffer = {}
    /\ cnv_map = <<>>
    /\ load_i = 0
    /\ observed_copy_numbers = <<>>
    /\ after_karyotype = <<>>
    /\ cn_events = <<>>
    /\ cnv_exit = <<>>
    /\ load_pc = "idle"
    \* the parallel run is not running
    /\ tr_regions = <<>>
    /\ run_cnv_regions = <<>>
    /\ threads = 0
    /\ worker = <<>>
    /\ claimed = {}
    /\ run_input = <<>>
    /\ visits = <<>>
    /\ outcomes = <<>>
    /\ run_log = <<>>
    /\ open_handles = <<>>
    /\ hts_log = <<>>
    \* read_cnvs is not running
    /\ read_cnv_map = <<>>
    /\ read_cn_buffer = {}
    /\ read_records = <<>>
    /\ read_cnvs_pc = "idle"
    \* read_trs is not running
    /\ ploidy = <<>>
    /\ tr_buffer = <<>>
    /\ tr_cn_buffer = {}
    /\ tr_records = <<>>
    /\ read_trs_pc = "idle"
    \* range_overlap is not running
    /\ ov_a = <<0, 0>>
    /\ ov_b = <<0, 0>>
    /\ ov_ab = <<>>
    /\ ov_ba = <<>>
    /\ ov_pc = "idle"

\* rhtslib_read returns Some(Ok(())): one pass through the loop body.
ExtractRead ==
    /\ extract_pc = "loop"
    /\ n_reads < MaxReads
    /\ \E rec \in Records :
          LET r == ExtractStep(rec, read_lengths, extract_region.reference_info, flank)
          IN  /\ record' = Some(rec)
              /\ read_lengths' = r.lens
              /\ prev_lengths' = read_lengths
              /\ last_outcome' = r.outcome
              /\ n_counted' = IF r.outcome = "counted" THEN n_counted + 1 ELSE n_counted
              /\ extract_pc' = IF r.outcome = "err" THEN "err" ELSE "loop"
    /\ n_reads' = n_reads + 1
    /\ UNCHANGED <<extract_region, flank>>
    /\ UNCHANGED <<partVars, gtVars, cigarVars, loadVars, runVars, readCnvVars, readTrVars, ovVars>>

\* rhtslib_read returns Some(Err(..)): `result.with_context(..)?` returns the error.
ExtractFaultyRead ==
    /\ extract_pc = "loop"
    /\ n_reads < MaxReads
    /\ n_reads' = n_reads + 1
    /\ prev_lengths' = read_lengths
    /\ last_outcome' = "faulty"
    /\ extract_pc' = "err"
    /\ UNCHANGED <<extract_region, flank, record, read_lengths, n_counted>>
    /\ UNCHANGED <<partVars, gtVars, cigarVars, loadVars, runVars, readCnvVars, readTrVars, ovVars>>

\* rhtslib_read returns None: the histogram is stored when it is not empty.
ExtractEnd ==
    /\ extract_pc = "loop"
    /\ extract_region' =
          IF DOMAIN read_lengths # {}
          THEN [extract_region EXCEPT !.allele_lengths = Some(read_lengths)]
          ELSE extract_region
    /\ extract_pc' = "done"
    /\ UNCHANGED <<flank, record, read_lengths, prev_lengths, last_outcome, n_reads, n_counted>>
    /\ UNCHANGED <<partVars, gtVars, cigarVars, loadVars, runVars, readCnvVars, readTrVars, ovVars>>

NextExtract == ExtractRead \/ ExtractFaultyRead \/ ExtractEnd

SpecExtract == InitExtract /\ [][NextExtract]_vars

\* load_tandem_repeats after Karyotype::from_json succeeded
InitLoad ==
    /\ karyotype \in Karyotypes
    /\ cnv_source \in {None, Some("cnv")}
    /\ max_cn \in 1..2
    /\ repeat_buffer = <<>>
    /\ copy_number_buffer = {}
    /\ cnv_map = <<>>
    /\ load_i = 0
    /\ observed_copy_numbers = <<>>
    /\ after_karyotype = <<>>
    /\ cn_events = <<>>
    /\ cnv_exit = <<>>
    /\ load_pc = "load_repeats"
    \* partitions is not running
    /\ p_n = 0
    /\ p_a = <<>>
    /\ p_k = 0
    /\ results = <<>>
    /\ results_idx = 0
    /\ p_writes = <<>>
    /\ p_pc = "idle"
    \* estimate_genotype is not running
    /\ tr_region = None
    /\ min_norm_depth = 0
    /\ max_norm_depth = None
    /\ partitions_map = <<>>
    /\ gt_call = None
    \* allele_length_from_cigar is not running
    /\ cigar = <<>>
    /\ starting_pos = 0
    /\ tr_start = 0
    /\ tr_end = 0
    /\ current_pos = 0
    /\ tr_region_len = 0
    /\ cigar_pc = "idle"
    \* extract_allele_lengths is not running
    /\ extract_region = None
    /\ flank = 0
    /\ record = None
    /\ read_lengths = <<>>
    /\ prev_lengths = <<>>
    /\ last_outcome = "none"
    /\ n_reads = 0
    /\ n_counted = 0
    /\ extract_pc = "idle"
    \* the parallel run is not running
    /\ tr_regions = <<>>
    /\ run_cnv_regions = <<>>
    /\ threads = 0
    /\ worker = <<>>
    /\ claimed = {}
    /\ run_input = <<>>
    /\ visits = <<>>
    /\ outcomes = <<>>
    /\ run_log = <<>>
    /\ open_handles = <<>>
    /\ hts_log = <<>>
    \* read_cnvs is not running
    /\ read_cnv_map = <<>>
    /\ read_cn_buffer = {}
    /\ read_records = <<>>
    /\ read_cnvs_pc = "idle"
    \* read_trs is not running
    /\ ploidy = <<>>
    /\ tr_buffer = <<>>
    /\ tr_cn_buffer = {}
    /\ tr_records = <<>>
    /\ read_trs_pc = "idle"
    \* range_overlap is not running
    /\ ov_a = <<0, 0>>
    /\ ov_b = <<0, 0>>
    /\ ov_ab = <<>>
    /\ ov_ba = <<>>
    /\ ov_pc = "idle"

\* load_repeats: one record of the repeat source becomes a locus.
LoadRepeat ==
    /\ load_pc = "load_repeats"
    /\ Len(repeat_buffer) < MaxLoci
    /\ \E ref_info \in LoadRefInfos :
          LET tr == set_cn_from_karyotpe(
                        [reference_info |-> ref_info, copy_number |-> 0,
                         allele_lengths |-> None, genotype |-> None, filter |-> "PASS"],
                        karyotype)
          IN  /\ copy_number_buffer' = copy_number_buffer \cup {tr.copy_number}
              /\ repeat_buffer' = Append(repeat_buffer, tr)
              /\ after_karyotype' = Append(after_karyotype, tr)
    /\ cn_events' = Append(cn_events, <<"karyotype">>)
    /\ cnv_exit' = Append(cnv_exit, "none")
    /\ UNCHANGED <<karyotype, cnv_source, max_cn, cnv_map, load_i, observed_copy_numbers,
                   load_pc>>
    /\ UNCHANGED <<partVars, gtVars, cigarVars, extractVars, runVars, readCnvVars, readTrVars, ovVars>>

\* load_repeats returns Ok: `if let Some(source) = cnv_source`.
LoadRepeatsDone ==
    /\ load_pc = "load_repeats"
    /\ load_pc' = IF IsSome(cnv_source) THEN "load_cnvs" ELSE "collect"
    /\ UNCHANGED <<karyotype, cnv_source, max_cn, repeat_buffer, copy_number_buffer, cnv_map,
                   load_i, observed_copy_numbers, after_karyotype, cn_events, cnv_exit>>
    /\ UNCHANGED <<partVars, gtVars, cigarVars, extractVars, runVars, readCnvVars, readTrVars, ovVars>>

\* load_cnvs returns Ok(cnv_map), the copy numbers of its regions added to the buffer.
LoadCnvs ==
    /\ load_pc = "load_cnvs"
    /\ \E m \in CnvMaps :
          /\ cnv_map' = m
          /\ copy_number_buffer' =
                copy_number_buffer
                    \cup UNION {{m[c][i].cn : i \in 1..Len(m[c])} : c \in DOMAIN m}
    /\ load_i' = 1
    /\ load_pc' = IF Len(repeat_buffer) = 0 THEN "collect" ELSE "cnv_loop"
    /\ UNCHANGED <<karyotype, cnv_source, max_cn, repeat_buffer, observed_copy_numbers,
                   after_karyotype, cn_events, cnv_exit>>
    /\ UNCHANGED <<partVars, gtVars, cigarVars, extractVars, runVars, readCnvVars, readTrVars, ovVars>>

\* load_cnvs returns Err: `?` returns it.
LoadCnvsFail ==
    /\ load_pc = "load_cnvs"
    /\ load_pc' = "err"
    /\ UNCHANGED <<karyotype, cnv_source, max_cn, repeat_buffer, copy_number_buffer, cnv_map,
                   load_i, observed_copy_numbers, after_karyotype, cn_events, cnv_exit>>
    /\ UNCHANGED <<partVars, gtVars, cigarVars, extractVars, runVars, readCnvVars, readTrVars, ovVars>>

\* One pass through `for tr_region in &mut repeat_buffer`.
ApplyCnvs ==
    /\ load_pc = "cnv_loop"
    /\ LET tr_reg == repeat_buffer[load_i]
           seqname == tr_reg.reference_info.seqname
           r == set_cn_from_cnvs(tr_reg, cnv_map[seqname])
       IN  IF seqname \in DOMAIN cnv_map
           THEN /\ repeat_buffer' = [repeat_buffer EXCEPT ![load_i] = r.tr]
                /\ cn_events' = [cn_events EXCEPT ![load_i] = Append(@, "cnv")]
                /\ cnv_exit' = [cnv_exit EXCEPT ![load_i] = r.exit]
           ELSE UNCHANGED <<repeat_buffer, cn_events, cnv_exit>>
    /\ load_i' = load_i + 1
    /\ load_pc' = IF load_i = Len(repeat_buffer) THEN "collect" ELSE "cnv_loop"
    /\ UNCHANGED <<karyotype, cnv_source, max_cn, copy_number_buffer, cnv_map,
                   observed_copy_numbers, after_karyotype>>
    /\ UNCHANGED <<partVars, gtVars, cigarVars, extractVars, runVars, readCnvVars, readTrVars, ovVars>>

\* The copy numbers up to max_cn are collected and sorted; Ok is returned.
CollectCopyNumbers ==
    /\ load_pc = "collect"
    /\ observed_copy_numbers' = SortedSeq(CopyNumbersUpTo(copy_number_buffer, max_cn))
    /\ load_pc' = "done"
    /\ UNCHANGED <<karyotype, cnv_source, max_cn, repeat_buffer, copy_number_buffer, cnv_map,
                   load_i, after_karyotype, cn_events, cnv_exit>>
    /\ UNCHANGED <<partVars, gtVars, cigarVars, extractVars, runVars, readCnvVars, readTrVars, ovVars>>

NextLoad ==
    LoadRepeat \/ LoadRepeatsDone \/ LoadCnvs \/ LoadCnvsFail \/ ApplyCnvs
        \/ CollectCopyNumbers

SpecLoad == InitLoad /\ [][NextLoad]_vars

\* ---- the parallel run ----
InitRun ==
    /\ threads \in 1..MaxThreads
    /\ \E n \in 0..MaxRunLoci :
          tr_regions \in {s \in [1..n -> UNION {RunLoci(i) : i \in 1..n}] :
                             \A i \in 1..n : s[i] \in RunLoci(i)}
    /\ run_cnv_regions \in RunCnvLists
    /\ worker = [t \in 1..threads |-> [pc |-> "idle", chunk |-> 0, pos |-> 0]]
    /\ claimed = {}
    /\ run_input = tr_regions
    /\ visits = [i \in 1..Len(tr_regions) |-> <<>>]
    /\ outcomes = [i \in 1..Len(tr_regions) |-> "none"]
    /\ run_log = [c \in 1..NumChunks(Len(tr_regions), threads) |-> <<>>]
    /\ open_handles = [t \in 1..threads |-> {}]
    /\ hts_log = [c \in 1..NumChunks(Len(tr_regions), threads) |-> <<>>]
    \* partitions is not running
    /\ p_n = 0
    /\ p_a = <<>>
    /\ p_k = 0
    /\ results = <<>>
    /\ results_idx = 0
    /\ p_writes = <<>>
    /\ p_pc = "idle"
    \* estimate_genotype is not running
    /\ tr_region = None
    /\ min_norm_depth = 0
    /\ max_norm_depth = None
    /\ partitions_map = <<>>
    /\ gt_call = None
    \* allele_length_from_cigar is not running
    /\ cigar = <<>>
    /\ starting_pos = 0
    /\ tr_start = 0
    /\ tr_end = 0
    /\ current_pos = 0
    /\ tr_region_len = 0
    /\ cigar_pc = "idle"
    \* extract_allele_lengths is not running
    /\ extract_region = None
    /\ flank = 0
    /\ record = None
    /\ read_lengths = <<>>
    /\ prev_lengths = <<>>
    /\ last_outcome = "none"
    /\ n_reads = 0
    /\ n_counted = 0
    /\ extract_pc = "idle"
    \* load_tandem_repeats is not running
    /\ karyotype = <<>>
    /\ cnv_source = None
    /\ max_cn = 0
    /\ repeat_buffer = <<>>
    /\ copy_number_buffer = {}
    /\ cnv_map = <<>>
    /\ load_i = 0
    /\ observed_copy_numbers = <<>>
    /\ after_karyotype = <<>>
    /\ cn_events = <<>>
    /\ cnv_exit = <<>>
    /\ load_pc = "idle"
    \* read_cnvs is not running
    /\ read_cnv_map = <<>>
    /\ read_cn_buffer = {}
    /\ read_records = <<>>
    /\ read_cnvs_pc = "idle"
    \* read_trs is not running
    /\ ploidy = <<>>
    /\ tr_buffer = <<>>
    /\ tr_cn_buffer = {}
    /\ tr_records = <<>>
    /\ read_trs_pc = "idle"
    \* range_overlap is not running
    /\ ov_a = <<0, 0>>
    /\ ov_b = <<0, 0>>
    /\ ov_ab = <<>>
    /\ ov_ba = <<>>
    /\ ov_pc = "idle"

\* par_chunks_mut(..).for_each: a free thread of the pool takes a chunk nobody took
TakeChunk(t) ==
    /\ worker[t].pc = "idle"
    /\ \E c \in (1..NChunks) \ claimed :
          /\ claimed' = claimed \cup {c}
          /\ worker' = [worker EXCEPT ![t] = [pc |-> "setup", chunk |-> c,
                                              pos |-> ChunkFirst(c, Len(tr_regions), threads)]]
    /\ UNCHANGED <<tr_regions, run_cnv_regions, threads, run_input, visits, outcomes, run_log,
                   open_handles, hts_log>>
    /\ UNCHANGED <<partVars, gtVars, cigarVars, extractVars, loadVars, readCnvVars, readTrVars,
                   ovVars>>

\* thread_setup(..).expect(..): the alignment file, its header and its index are opened
ThreadSetup(t) ==
    /\ worker[t].pc = "setup"
    /\ worker' = [worker EXCEPT ![t].pc = "loop"]
    /\ open_handles' = [open_handles EXCEPT ![t] = Handles]
    /\ UNCHANGED <<tr_regions, run_cnv_regions, threads, claimed, run_input, visits,
                   outcomes, run_log, hts_log>>
    /\ UNCHANGED <<partVars, gtVars, cigarVars, extractVars, loadVars, readCnvVars, readTrVars,
                   ovVars>>

\* thread_setup fails, at one of its steps: the assertions and expect panic
ThreadSetupPanic(t) ==
    /\ worker[t].pc = "setup"
    /\ worker' = [worker EXCEPT ![t].pc = "panic"]
    /\ \E failed \in SetupFailures :
          open_handles' = [open_handles EXCEPT ![t] = OpenAtSetupFailure(failed)]
    /\ UNCHANGED <<tr_regions, run_cnv_regions, threads, claimed, run_input, visits,
                   outcomes, run_log, hts_log>>
    /\ UNCHANGED <<partVars, gtVars, cigarVars, extractVars, loadVars, readCnvVars, readTrVars,
                   ovVars>>

\* for tr_region in tr_regions: the body of the loop for the next locus of the chunk
RunLoopBody(t) ==
    /\ worker[t].pc = "loop"
    /\ worker[t].pos <= ChunkLast(worker[t].chunk, Len(tr_regions), threads)
    /\ \E fetched \in FetchResults, reads \in ReadResults :
          \E r \in RunLocus(tr_regions[worker[t].pos], run_cnv_regions, fetched, reads,
                            RunPartitionsMap) :
              /\ tr_regions' = [tr_regions EXCEPT ![worker[t].pos] = r.tr]
              /\ outcomes' = [outcomes EXCEPT ![worker[t].pos] = r.exit]
              /\ hts_log' = [hts_log EXCEPT ![worker[t].chunk] = @ \o r.itr]
    /\ visits' = [visits EXCEPT ![worker[t].pos] = Append(@, t)]
    /\ run_log' = [run_log EXCEPT ![worker[t].chunk] = Append(@, worker[t].pos)]
    /\ worker' = [worker EXCEPT ![t].pos = @ + 1]
    /\ UNCHANGED <<run_cnv_regions, threads, claimed, run_input, open_handles>>
    /\ UNCHANGED <<partVars, gtVars, cigarVars, extractVars, loadVars, readCnvVars, readTrVars,
                   ovVars>>

\* the loop is through the chunk: hts_close, and the thread is free again
RunClose(t) ==
    /\ worker[t].pc = "loop"
    /\ worker[t].pos > ChunkLast(worker[t].chunk, Len(tr_regions), threads)
    /\ worker' = [worker EXCEPT ![t] = [pc |-> "idle", chunk |-> 0, pos |-> 0]]
    /\ open_handles' = [open_handles EXCEPT ![t] = hts_close(@)]
    /\ hts_log' = [hts_log EXCEPT ![worker[t].chunk] = Append(@, "hts_close")]
    /\ UNCHANGED <<tr_regions, run_cnv_regions, threads, claimed, run_input, visits,
                   outcomes, run_log>>
    /\ UNCHANGED <<partVars, gtVars, cigarVars, extractVars, loadVars, readCnvVars, readTrVars,
                   ovVars>>

NextRun ==
    \/ \E t \in DOMAIN worker : TakeChunk(t)
    \/ \E t \in DOMAIN worker : ThreadSetup(t)
    \/ \E t \in DOMAIN worker : ThreadSetupPanic(t)
    \/ \E t \in DOMAIN worker : RunLoopBody(t)
    \/ \E t \in DOMAIN worker : RunClose(t)

SpecRun == InitRun /\ [][NextRun]_vars

\* ---- read_cnvs ----
InitReadCnvs ==
    /\ read_cnv_map = <<>>
    /\ read_cn_buffer \in {{}, {2}}
    /\ read_records = <<>>
    /\ read_cnvs_pc = "reading"
    \* partitions is not running
    /\ p_n = 0
    /\ p_a = <<>>
    /\ p_k = 0
    /\ results = <<>>
    /\ results_idx = 0
    /\ p_writes = <<>>
    /\ p_pc = "idle"
    \* estimate_genotype is not running
    /\ tr_region = None
    /\ min_norm_depth = 0
    /\ max_norm_depth = None
    /\ partitions_map = <<>>
    /\ gt_call = None
    \* allele_length_from_cigar is not running
    /\ cigar = <<>>
    /\ starting_pos = 0
    /\ tr_start = 0
    /\ tr_end = 0
    /\ current_pos = 0
    /\ tr_region_len = 0
    /\ cigar_pc = "idle"
    \* extract_allele_lengths is not running
    /\ extract_region = None
    /\ flank = 0
    /\ record = None
    /\ read_lengths = <<>>
    /\ prev_lengths = <<>>
    /\ last_outcome = "none"
    /\ n_reads = 0
    /\ n_counted = 0
    /\ extract_pc = "idle"
    \* load_tandem_repeats is not running
    /\ karyotype = <<>>
    /\ cnv_source = None
    /\ max_cn = 0
    /\ repeat_buffer = <<>>
    /\ copy_number_buffer = {}
    /\ cnv_map = <<>>
    /\ load_i = 0
    /\ observed_copy_numbers = <<>>
    /\ after_karyotype = <<>>
    /\ cn_events = <<>>
    /\ cnv_exit = <<>>
    /\ load_pc = "idle"
    \* the parallel run is not running
    /\ tr_regions = <<>>
    /\ run_cnv_regions = <<>>
    /\ threads = 0
    /\ worker = <<>>
    /\ claimed = {}
    /\ run_input = <<>>
    /\ visits = <<>>
    /\ outcomes = <<>>
    /\ run_log = <<>>
    /\ open_handles = <<>>
    /\ hts_log = <<>>
    \* read_trs is not running
    /\ ploidy = <<>>
    /\ tr_buffer = <<>>
    /\ tr_cn_buffer = {}
    /\ tr_records = <<>>
    /\ read_trs_pc = "idle"
    \* range_overlap is not running
    /\ ov_a = <<0, 0>>
    /\ ov_b = <<0, 0>>
    /\ ov_ab = <<>>
    /\ ov_ba = <<>>
    /\ ov_pc = "idle"

\* for result in bed_reader.deserialize(): one record goes through the loop body
ReadCnvRecord ==
    /\ read_cnvs_pc = "reading"
    /\ Len(read_records) < MaxCnvRecords
    /\ \E cnv \in CnvRecords :
          LET r == ReadCnvStep(read_cnv_map, cnv)
          IN  /\ read_records' = Append(read_records, cnv)
              /\ read_cn_buffer' = read_cn_buffer \cup {cnv.cn}
              /\ read_cnv_map' = r.map
              /\ read_cnvs_pc' = IF r.ret = "Err" THEN "err" ELSE "reading"
    /\ UNCHANGED <<partVars, gtVars, cigarVars, extractVars, loadVars, runVars, readTrVars, ovVars>>

\* a line that does not deserialize: result.with_context(..)? returns the error
ReadCnvBadRecord ==
    /\ read_cnvs_pc = "reading"
    /\ Len(read_records) < MaxCnvRecords
    /\ read_cnvs_pc' = "err"
    /\ UNCHANGED <<read_cnv_map, read_cn_buffer, read_records>>
    /\ UNCHANGED <<partVars, gtVars, cigarVars, extractVars, loadVars, runVars, readTrVars, ovVars>>

\* the file is through: Ok(cnv_map)
ReadCnvsEnd ==
    /\ read_cnvs_pc = "reading"
    /\ read_cnvs_pc' = "ok"
    /\ UNCHANGED <<read_cnv_map, read_cn_buffer, read_records>>
    /\ UNCHANGED <<partVars, gtVars, cigarVars, extractVars, loadVars, runVars, readTrVars, ovVars>>

NextReadCnvs ==
    \/ ReadCnvRecord
    \/ ReadCnvBadRecord
    \/ ReadCnvsEnd

SpecReadCnvs == InitReadCnvs /\ [][NextReadCnvs]_vars

\* ---- read_trs ----
InitReadTrs ==
    /\ ploidy \in Karyotypes
    /\ tr_buffer = <<>>
    /\ tr_cn_buffer = {}
    /\ tr_records = <<>>
    /\ read_trs_pc = "reading"
    \* partitions is not running
    /\ p_n = 0
    /\ p_a = <<>>
    /\ p_k = 0
    /\ results = <<>>
    /\ results_idx = 0
    /\ p_writes = <<>>
    /\ p_pc = "idle"
    \* estimate_genotype is not running
    /\ tr_region = None
    /\ min_norm_depth = 0
    /\ max_norm_depth = None
    /\ partitions_map = <<>>
    /\ gt_call = None
    \* allele_length_from_cigar is not running
    /\ cigar = <<>>
    /\ starting_pos = 0
    /\ tr_start = 0
    /\ tr_end = 0
    /\ current_pos = 0
    /\ tr_region_len = 0
    /\ cigar_pc = "idle"
    \* extract_allele_lengths is not running
    /\ extract_region = None
    /\ flank = 0
    /\ record = None
    /\ read_lengths = <<>>
    /\ prev_lengths = <<>>
    /\ last_outcome = "none"
    /\ n_reads = 0
    /\ n_counted = 0
    /\ extract_pc = "idle"
    \* load_tandem_repeats is not running
    /\ karyotype = <<>>
    /\ cnv_source = None
    /\ max_cn = 0
    /\ repeat_buffer = <<>>
    /\ copy_number_buffer = {}
    /\ cnv_map = <<>>
    /\ load_i = 0
    /\ observed_copy_numbers = <<>>
    /\ after_karyotype = <<>>
    /\ cn_events = <<>>
    /\ cnv_exit = <<>>
    /\ load_pc = "idle"
    \* the parallel run is not running
    /\ tr_regions = <<>>
    /\ run_cnv_regions = <<>>
    /\ threads = 0
    /\ worker = <<>>
    /\ claimed = {}
    /\ run_input = <<>>
    /\ visits = <<>>
    /\ outcomes = <<>>
    /\ run_log = <<>>
    /\ open_handles = <<>>
    /\ hts_log = <<>>
    \* read_cnvs is not running
    /\ read_cnv_map = <<>>
    /\ read_cn_buffer = {}
    /\ read_records = <<>>
    /\ read_cnvs_pc = "idle"
    \* range_overlap is not running
    /\ ov_a = <<0, 0>>
    /\ ov_b = <<0, 0>>
    /\ ov_ab = <<>>
    /\ ov_ba = <<>>
    /\ ov_pc = "idle"

\* for result in bed_reader.deserialize(): a record becomes a locus and is pushed
ReadTrRecord ==
    /\ read_trs_pc = "reading"
    /\ Len(tr_records) < MaxTrRecords
    /\ \E ref_info \in TrRecords :
          LET tr == TrFromRecord(ploidy, ref_info)
          IN  /\ tr_records' = Append(tr_records, ref_info)
              /\ tr_cn_buffer' = tr_cn_buffer \cup {tr.copy_number}
              /\ tr_buffer' = Append(tr_buffer, tr)
    /\ UNCHANGED <<ploidy, read_trs_pc>>
    /\ UNCHANGED <<partVars, gtVars, cigarVars, extractVars, loadVars, runVars, readCnvVars, ovVars>>

\* a line that does not deserialize: result.with_context(..)? returns the error
ReadTrBadRecord ==
    /\ read_trs_pc = "reading"
    /\ Len(tr_records) < MaxTrRecords
    /\ read_trs_pc' = "err"
    /\ UNCHANGED <<ploidy, tr_buffer, tr_cn_buffer, tr_records>>
    /\ UNCHANGED <<partVars, gtVars, cigarVars, extractVars, loadVars, runVars, readCnvVars, ovVars>>

\* the file is through: Ok(())
ReadTrsEnd ==
    /\ read_trs_pc = "reading"
    /\ read_trs_pc' = "ok"
    /\ UNCHANGED <<ploidy, tr_buffer, tr_cn_buffer, tr_records>>
    /\ UNCHANGED <<partVars, gtVars, cigarVars, extractVars, loadVars, runVars, readCnvVars, ovVars>>

NextReadTrs ==
    \/ ReadTrRecord
    \/ ReadTrBadRecord
    \/ ReadTrsEnd

SpecReadTrs == InitReadTrs /\ [][NextReadTrs]_vars

\* ---- range_overlap ----
InitOverlap ==
    /\ ov_a \in Coords \X Coords
    /\ ov_b \in Coords \X Coords
    /\ ov_ab = None
    /\ ov_ba = None
    /\ ov_pc = "call"
    \* estimate_genotype is not running
    /\ tr_region = None
    /\ min_norm_depth = 0
    /\ max_norm_depth = None
    /\ partitions_map = <<>>
    /\ gt_call = None
    \* allele_length_from_cigar is not running
    /\ cigar = <<>>
    /\ starting_pos = 0
    /\ tr_start = 0
    /\ tr_end = 0
    /\ current_pos = 0
    /\ tr_region_len = 0
    /\ cigar_pc = "idle"
    \* extract_allele_lengths is not running
    /\ extract_region = None
    /\ flank = 0
    /\ record = None
    /\ read_lengths = <<>>
    /\ prev_lengths = <<>>
    /\ last_outcome = "none"
    /\ n_reads = 0
    /\ n_counted = 0
    /\ extract_pc = "idle"
    \* load_tandem_repeats is not running
    /\ karyotype = <<>>
    /\ cnv_source = None
    /\ max_cn = 0
    /\ repeat_buffer = <<>>
    /\ copy_number_buffer = {}
    /\ cnv_map = <<>>
    /\ load_i = 0
    /\ observed_copy_numbers = <<>>
    /\ after_karyotype = <<>>
    /\ cn_events = <<>>
    /\ cnv_exit = <<>>
    /\ load_pc = "idle"
    \* the parallel run is not running
    /\ tr_regions = <<>>
    /\ run_cnv_regions = <<>>
    /\ threads = 0
    /\ worker = <<>>
    /\ claimed = {}
    /\ run_input = <<>>
    /\ visits = <<>>
    /\ outcomes = <<>>
    /\ run_log = <<>>
    /\ open_handles = <<>>
    /\ hts_log = <<>>
    \* read_cnvs is not running
    /\ read_cnv_map = <<>>
    /\ read_cn_buffer = {}
    /\ read_records = <<>>
    /\ read_cnvs_pc = "idle"
    \* read_trs is not running
    /\ ploidy = <<>>
    /\ tr_buffer = <<>>
    /\ tr_cn_buffer = {}
    /\ tr_records = <<>>
    /\ read_trs_pc = "idle"
    \* partitions is not running
    /\ p_n = 0
    /\ p_a = <<>>
    /\ p_k = 0
    /\ results = <<>>
    /\ results_idx = 0
    /\ p_writes = <<>>
    /\ p_pc = "idle"

\* range_overlap(a_start, a_end, b_start, b_end)
OverlapCall ==
    /\ ov_pc = "call"
    /\ ov_ab' = Some(range_overlap(ov_a[1], ov_a[2], ov_b[1], ov_b[2]))
    /\ ov_pc' = "swapped"
    /\ UNCHANGED <<ov_a, ov_b, ov_ba>>
    /\ UNCHANGED <<partVars, gtVars, cigarVars, extractVars, loadVars, runVars, readCnvVars, readTrVars>>

\* range_overlap(b_start, b_end, a_start, a_end): the same ranges, swapped
OverlapCallSwapped ==
    /\ ov_pc = "swapped"
    /\ ov_ba' = Some(range_overlap(ov_b[1], ov_b[2], ov_a[1], ov_a[2]))
    /\ ov_pc' = "done"
    /\ UNCHANGED <<ov_a, ov_b, ov_ab>>
    /\ UNCHANGED <<partVars, gtVars, cigarVars, extractVars, loadVars, runVars, readCnvVars, readTrVars>>

NextOverlap ==
    \/ OverlapCall
    \/ OverlapCallSwapped

SpecOverlap == InitOverlap /\ [][NextOverlap]_vars

(***************************************************************************)
(* Properties                                                              *)
(***************************************************************************)
GtCalled == gt_call # None /\ gt_call.ret # "none"
\* the call got as far as most_likely_gt_idx
GtReachedArgmin == GtCalled /\ gt_call.stage \in {"amb_min", "amb_plateau", "amb_carry", "ok"}
\* the call got as far as the plateau check (most_likely_gt_idx returned a row)
GtReachedPlateaus == GtCalled /\ gt_call.stage \in {"amb_plateau", "amb_carry", "ok"}
\* the call got as far as the carry check
GtReachedCarry == GtCalled /\ gt_call.stage \in {"amb_carry", "ok"}

GtHist == Unwrap(tr_region.allele_lengths)
GtTotalReads == MapTotal(GtHist, DOMAIN GtHist)
GtChosenRow == partitions_map[tr_region.copy_number][Unwrap(gt_call.min)]

\* The i-th largest count of histogram h (i from 0), 0 past its end.
DescCount(h, i) ==
    IF i >= Cardinality(DOMAIN h) THEN 0
    ELSE CHOOSE v \in {h[x] : x \in DOMAIN h} :
            /\ Cardinality({x \in DOMAIN h : h[x] > v}) <= i
            /\ i < Cardinality({x \in DOMAIN h : h[x] >= v})

\* k times the Manhattan distance sum_i |row[i] * (total / k) - obs[i]|, exactly
ExactDistance(row, total, k, obs) ==
    SumTo([i \in 0..(k - 1) |-> Abs(row[i] * total - k * obs[i])], k)

\* the rows of the k-partition matrix at minimal exact Manhattan distance from
\* the histogram's counts in descending order, cut or zero-padded to length k
ExactMinimisers ==
    LET k    == tr_region.copy_number
        rows == partitions_map[k]
        obs  == [i \in 0..(k - 1) |-> DescCount(GtHist, i)]
        d    == {<<r, ExactDistance(rows[r], GtTotalReads, k, obs)>> : r \in DOMAIN rows}
    IN  {m[1] : m \in {x \in d : \A q \in d : x[2] <= q[2]}}

\* C1: a genotype stored by a successful estimate_genotype is sorted by strictly
\* ascending allele length, has every multiplicity >= 1, and its multiplicities
\* sum to the copy number.
C1_GenotypeWellFormed ==
    (GtCalled /\ gt_call.ret = "Ok") =>
        /\ IsSome(tr_region.genotype)
        /\ tr_region.copy_number >= 1
        /\ LET g == Unwrap(tr_region.genotype)
           IN  /\ \A i \in 1..(Len(g) - 1) : g[i][1] < g[i + 1][1]
               /\ \A i \in 1..Len(g) : g[i][2] >= 1
               /\ SumTo([i \in 0..(Len(g) - 1) |-> g[i + 1][2]], Len(g))
                     = tr_region.copy_number

\* a genotype with two alleles was emitted from a histogram longer than the copy number
C1_Witness ==
    /\ GtCalled /\ gt_call.ret = "Ok"
    /\ Len(gt_call.allele_lengths) > tr_region.copy_number
    /\ Len(Unwrap(tr_region.genotype)) >= 2

\* C2: the row most_likely_gt_idx returns minimises the exact Manhattan distance
\* to obs (E = total reads of the whole histogram / k), and when the exact
\* minimiser is unique, that row is returned.
C2_RowMinimisesDistance ==
    GtReachedArgmin =>
        /\ IsSome(gt_call.min) => Unwrap(gt_call.min) \in ExactMinimisers
        /\ Cardinality(ExactMinimisers) = 1 =>
               /\ IsSome(gt_call.min)
               /\ ExactMinimisers = {Unwrap(gt_call.min)}

\* rows [[3,0,0],[2,1,0],[1,1,1]], obs [2,1,0], total 3: row index 1 is returned
C2_Witness ==
    /\ GtReachedArgmin
    /\ tr_region.copy_number = 3
    /\ gt_call.obs_distr = [i \in 0..2 |-> 2 - i]
    /\ GtTotalReads = 3
    /\ gt_call.min = Some(1)

\* C3: if two or more rows attain the minimum Manhattan distance, the call fails,
\* the filter is AMB_GT and no genotype is stored.
C3_TiesAreAmbiguous ==
    (GtReachedArgmin /\ Cardinality(ExactMinimisers) >= 2) =>
        /\ gt_call.ret = "Err"
        /\ tr_region.filter = "AMB_GT"
        /\ tr_region.genotype = None

\* The maximal runs <<i, j>> of two or more equal adjacent values of arr[0..len-1].
MaximalRuns(arr, len) ==
    {ij \in (0..(len - 1)) \X (0..(len - 1)) :
        /\ ij[1] < ij[2]
        /\ \A x \in ij[1]..ij[2] : arr[x] = arr[ij[1]]
        /\ ij[1] = 0 \/ arr[ij[1] - 1] # arr[ij[1]]
        /\ ij[2] = len - 1 \/ arr[ij[2] + 1] # arr[ij[2]]}

\* the runs <<first, last>> a sequence of slices selects in an array of length len
SliceRuns(pl, len) ==
    {<<pl[i].start, (IF IsSome(pl[i].end) THEN Unwrap(pl[i].end) ELSE len) - 1>> :
        i \in DOMAIN pl}

\* C4: find_plateaus returns exactly the maximal runs of two or more equal
\* adjacent values of obs, each once; if the chosen row is not constant on one
\* of them the call fails with filter AMB_GT and no genotype.
C4_Plateaus ==
    GtReachedPlateaus =>
        LET k == tr_region.copy_number
            runs == MaximalRuns(gt_call.obs_distr, k)
        IN  /\ SliceRuns(gt_call.plateaus, k) = runs
            /\ Len(gt_call.plateaus) = Cardinality(runs)
            /\ (\E ij \in runs : \E x \in ij[1]..ij[2] : GtChosenRow[x] # GtChosenRow[ij[1]])
                   => /\ gt_call.ret = "Err"
                      /\ tr_region.filter = "AMB_GT"
                      /\ tr_region.genotype = None

\* histogram {a:1, b:6, c:1} at k = 4: obs [6,1,1,0], row [3,1,0,0] is not
\* constant on the run [1,2]
C4_Witness ==
    /\ GtCalled /\ gt_call.stage = "amb_plateau"
    /\ tr_region.copy_number = 4
    /\ gt_call.obs_distr = [i \in 0..3 |-> IF i = 0 THEN 6 ELSE IF i = 3 THEN 0 ELSE 1]
    /\ <<1, 2>> \in MaximalRuns(gt_call.obs_distr, 4)

\* C5: with more than k allele lengths the (k+1)-th largest count is the carry;
\* once the plateau check is passed the call fails with AMB_GT and no genotype
\* exactly when carry = obs[k-1] and the chosen row has p[k-1] > 0; otherwise
\* the genotype is emitted.
C5_CarryAmbiguity ==
    LET k == tr_region.copy_number
    IN  /\ (GtReachedArgmin /\ Cardinality(DOMAIN GtHist) > k)
               => gt_call.carry = Some(DescCount(GtHist, k))
        /\ (GtReachedArgmin /\ Cardinality(DOMAIN GtHist) <= k)
               => gt_call.carry = None
        /\ (GtReachedCarry /\ IsSome(gt_call.carry)) =>
               /\ gt_call.stage = "amb_carry"
                     <=> (Unwrap(gt_call.carry) = gt_call.obs_distr[k - 1]
                             /\ GtChosenRow[k - 1] > 0)
               /\ gt_call.stage = "amb_carry"
                     => (gt_call.ret = "Err" /\ tr_region.filter = "AMB_GT"
                            /\ tr_region.genotype = None)
               /\ gt_call.stage = "ok"
                     => (gt_call.ret = "Ok" /\ IsSome(tr_region.genotype))

\* histogram {a:3, b:2, c:2} at k = 2: carry 2 = obs[1], row [1,1] -> AMB_GT
C5_Witness ==
    /\ GtCalled /\ gt_call.stage = "amb_carry"
    /\ tr_region.copy_number = 2
    /\ gt_call.carry = Some(2)
    /\ gt_call.obs_distr = [i \in 0..1 |-> 3 - i]

\* the carry equals obs[k-1] but the chosen row is [2,0]: the genotype is emitted
C5_WitnessEmitted ==
    /\ GtCalled /\ gt_call.stage = "ok"
    /\ tr_region.copy_number = 2
    /\ gt_call.carry = Some(gt_call.obs_distr[1])
    /\ GtChosenRow[1] = 0

RECURSIVE PartCount(_, _)
\* the number of partitions of n into parts of size at most m
PartCount(n, m) ==
    IF n = 0 THEN 1
    ELSE IF m = 0 THEN 0
    ELSE PartCount(n, m - 1) + (IF n >= m THEN PartCount(n - m, m) ELSE 0)

\* C6: for n >= 1 partitions(n) has p(n) rows and n columns; the rows are pairwise
\* distinct, nonincreasing, zero-padded on the right and sum to n.
C6_PartitionsMatrix ==
    /\ p_pc # "panic"
    /\ (p_pc = "done" /\ p_n >= 1) =>
           /\ DOMAIN results = 0..(PartCount(p_n, p_n) - 1)
           /\ \A r \in DOMAIN results :
                  /\ DOMAIN results[r] = 0..(p_n - 1)
                  /\ \A i \in DOMAIN results[r] : results[r][i] \in 0..p_n
                  /\ \A i \in 0..(p_n - 2) : results[r][i] >= results[r][i + 1]
                  /\ SumTo(results[r], p_n) = p_n
           /\ \A r, q \in DOMAIN results : r # q => results[r] # results[q]
           /\ results = partitions(p_n)

\* partitions(6) is complete: 11 rows, the last one [1,1,1,1,1,1]
C6_Witness ==
    /\ p_pc = "done"
    /\ p_n = 6
    /\ Cardinality(DOMAIN results) = 11
    /\ results[10] = [i \in 0..5 |-> 1]

\* The reference position the i-th operation of cig starts at, for a read at pos.
RefPosOf(cig, i, pos) ==
    pos + SumTo([j \in 0..(i - 2) |->
                    IF cig[j + 1].kind \in {"Match", "Del", "RefSkip", "Equal", "Diff"}
                    THEN cig[j + 1].len ELSE 0], i - 1)

\* Reference positions of M/=/X operations inside [s, e), plus the lengths of the
\* insertions met at a position >= s.
AlleleLengthOf(cig, pos, s, e) ==
    SumTo([j \in 0..(Len(cig) - 1) |->
              LET op == cig[j + 1]
                  at == RefPosOf(cig, j + 1, pos)
              IN  IF op.kind \in {"Match", "Equal", "Diff"}
                  THEN Cardinality({x \in at..(at + op.len - 1) : s <= x /\ x < e})
                  ELSE IF op.kind = "Ins" /\ s <= at THEN op.len
                  ELSE 0], Len(cig))

\* C7: after any number of operations of a read starting before the locus, acc is
\* the number of reference positions of M/=/X operations inside the locus plus the
\* insertions met at cursor >= locus.start; the cursor is the start plus the
\* lengths of the M/D/N/=/X operations; the walk goes on exactly while
\* cursor < locus.end; no call fails.
C7_AlleleLengthFromCigar ==
    cigar_pc # "idle" =>
        /\ cigar_pc # "err"
        /\ tr_region_len = AlleleLengthOf(cigar, starting_pos, tr_start, tr_end)
        /\ current_pos = RefPosOf(cigar, Len(cigar) + 1, starting_pos)
        /\ current_pos >= tr_end => cigar_pc = "done"
        /\ \A i \in 1..Len(cigar) : RefPosOf(cigar, i, starting_pos) < tr_end
        /\ cigar_pc = "done" =>
               Some(tr_region_len)
                   = allele_length_from_cigar(cigar, starting_pos, tr_start, tr_end)

\* 2M 1I 2M at 0 on [2,4): the insertion at the locus start and two matched
\* positions give 3 (the shape of 20M6I54M on [40,50))
C7_Witness ==
    /\ cigar_pc = "done"
    /\ tr_start = 2 /\ tr_end = 4
    /\ cigar = <<[kind |-> "Match", len |-> 2], [kind |-> "Ins", len |-> 1],
                 [kind |-> "Match", len |-> 2]>>
    /\ tr_region_len = 3

\* The operations of cig the walk takes for a read at pos: up to and including the
\* first one that leaves the cursor at or after e.
WalkedPrefix(cig, pos, e) ==
    LET stops == {i \in 1..Len(cig) : RefPosOf(cig, i + 1, pos) >= e}
    IN  IF stops = {} THEN cig
        ELSE SubSeq(cig, 1, CHOOSE i \in stops : \A j \in stops : i <= j)

\* acc of a read for the locus ri
AccOf(rec, ri) ==
    AlleleLengthOf(WalkedPrefix(rec.cigar, rec.pos, ri.end), rec.pos, ri.start, ri.end)

\* the condition under which a read is to be counted
CountsRead(rec, ri, fl) ==
    /\ rec.flags = {}
    /\ rec.pos < ri.start - fl
    /\ reference_end(rec) > ri.end + fl
    /\ AccOf(rec, ri) % ri.period = 0

CountAt(h, x) == IF x \in DOMAIN h THEN h[x] ELSE 0

\* A read is counted exactly under CountsRead, a counted read adds 1 at acc / period
\* and nothing else changes, and the histogram total is the number of counted reads.
ExtractCountingRule ==
    /\ (IsSome(record) /\ last_outcome \notin {"none", "faulty"}) =>
          LET rec == Unwrap(record)
              ri  == extract_region.reference_info
              key == AccOf(rec, ri) \div ri.period
          IN  /\ (last_outcome = "counted") <=> CountsRead(rec, ri, flank)
              /\ IF CountsRead(rec, ri, flank)
                 THEN /\ DOMAIN read_lengths = (DOMAIN prev_lengths) \cup {key}
                      /\ \A x \in DOMAIN read_lengths :
                            read_lengths[x] = CountAt(prev_lengths, x)
                                                + (IF x = key THEN 1 ELSE 0)
                 ELSE read_lengths = prev_lengths
    /\ last_outcome = "faulty" => read_lengths = prev_lengths
    /\ MapTotal(read_lengths, DOMAIN read_lengths) = n_counted

\* The histogram is on the locus after the call exactly when a read was counted.
ExtractStoredRule ==
    /\ extract_pc = "loop" => extract_region.allele_lengths = None
    /\ extract_pc \in {"done", "err"} =>
          /\ IsSome(extract_region.allele_lengths) <=> n_counted >= 1
          /\ IsSome(extract_region.allele_lengths) =>
                Unwrap(extract_region.allele_lengths) = read_lengths

\* ExtractStoredRule for the calls that return Ok
ExtractStoredRuleOnOk ==
    extract_pc = "done" =>
        /\ IsSome(extract_region.allele_lengths) <=> n_counted >= 1
        /\ IsSome(extract_region.allele_lengths) =>
              Unwrap(extract_region.allele_lengths) = read_lengths

\* C8: extract_allele_lengths counts a read iff it carries none of the three flags,
\* starts before locus.start - flank, ends after locus.end + flank and its acc is a
\* multiple of period; a counted read adds exactly 1 to histogram[acc / period], so
\* the total is the number of counted reads; after the call the histogram is on the
\* locus iff at least one read was counted.
C8_ExtractCountsEnclosingReads ==
    extract_pc # "idle" => (ExtractCountingRule /\ ExtractStoredRule)

\* a read was counted, then a read failed to decode
C8_FaultyAfterCounted ==
    /\ extract_pc = "err"
    /\ last_outcome = "faulty"
    /\ n_counted >= 1

FullyCovers(c, ri) == c.start <= ri.start /\ ri.end <= c.end

OverlapsLocus(c, ri) == \E x \in ri.start..(ri.end - 1) : c.start <= x /\ x < c.end

\* C9: for a locus the sorted, non-overlapping list of its contig was applied to:
\* a region covering [start, end) gives the locus that region's cn and leaves the
\* filter; else a region overlapping it makes the filter CN_MISSING and leaves
\* copy_number; else the locus is as before. When the loop left at
\* region.start > locus.end, no region of the list overlaps the locus.
C9_CnvApplication ==
    \A i \in 1..Len(repeat_buffer) :
        LET b  == after_karyotype[i]
            a  == repeat_buffer[i]
            ri == b.reference_info
        IN  IF "cnv" \in {cn_events[i][e] : e \in 1..Len(cn_events[i])}
            THEN LET regs == cnv_map[ri.seqname]
                     covering == {j \in 1..Len(regs) : FullyCovers(regs[j], ri)}
                     partial  == {j \in 1..Len(regs) :
                                     OverlapsLocus(regs[j], ri) /\ ~FullyCovers(regs[j], ri)}
                 IN  /\ IF covering # {}
                        THEN \A j \in covering : a = [b EXCEPT !.copy_number = regs[j].cn]
                        ELSE IF partial # {}
                        THEN a = [b EXCEPT !.filter = "CN_MISSING"]
                        ELSE a = b
                     /\ cnv_exit[i] = "beyond" =>
                            \A j \in 1..Len(regs) : ~OverlapsLocus(regs[j], ri)
            ELSE a = b

\* one locus took the copy number of a covering region, for another the loop left
\* at a region beyond it, and a third case: a partial overlap
C9_Witness ==
    /\ load_pc = "done"
    /\ \E i \in 1..Len(repeat_buffer) :
          /\ cnv_exit[i] = "full"
          /\ repeat_buffer[i].copy_number = 3
          /\ after_karyotype[i].copy_number = 2
    /\ \E i \in 1..Len(repeat_buffer) :
          /\ cnv_exit[i] = "beyond"
          /\ repeat_buffer[i] = after_karyotype[i]

\* a locus with a partly overlapping region became CN_MISSING
C9_WitnessPartial ==
    /\ load_pc = "done"
    /\ \E i \in 1..Len(repeat_buffer) :
          /\ cnv_exit[i] = "partial"
          /\ after_karyotype[i].filter = "PASS"
          /\ repeat_buffer[i].filter = "CN_MISSING"

\* C10: right after karyotype application a locus has the baseline of its contig
\* as copy_number when the karyotype has the contig, and filter CN_MISSING with
\* copy_number 0 when it has not; what is applied to a locus is the karyotype, or
\* the karyotype and then the copy number variants, and no locus has the variants
\* applied while loci are still being loaded.
C10_KaryotypeFirst ==
    /\ Len(after_karyotype) = Len(repeat_buffer)
    /\ \A i \in 1..Len(after_karyotype) :
          LET tr == after_karyotype[i]
              c  == tr.reference_info.seqname
          IN  /\ c \in DOMAIN karyotype => tr.copy_number = karyotype[c]
              /\ c \notin DOMAIN karyotype =>
                     (tr.filter = "CN_MISSING" /\ tr.copy_number = 0)
              /\ cn_events[i] \in {<<"karyotype">>, <<"karyotype", "cnv">>}
              /\ load_pc = "load_repeats" => repeat_buffer[i] = tr

\* a locus of a missing contig and a locus of a present one, the variants applied
C10_Witness ==
    /\ load_pc = "done"
    /\ \E i \in 1..Len(repeat_buffer) :
          /\ repeat_buffer[i].reference_info.seqname \notin DOMAIN karyotype
          /\ repeat_buffer[i].filter = "CN_MISSING"
          /\ repeat_buffer[i].copy_number = 0
    /\ \E i \in 1..Len(repeat_buffer) :
          /\ repeat_buffer[i].reference_info.seqname \in DOMAIN karyotype
          /\ cn_events[i] = <<"karyotype", "cnv">>
          /\ after_karyotype[i].copy_number = 2

\* The precheck that applies first, by the order CN_ZERO, DP_ZERO, DP_OOR (low),
\* DP_OOR (high), CN_OOR, with d = total / copy_number compared exactly; "none"
\* when no precheck applies.
FirstPrecheck ==
    LET b     == gt_call.before
        k     == b.copy_number
        total == MapTotal(Unwrap(b.allele_lengths), DOMAIN Unwrap(b.allele_lengths))
    IN  IF k = 0 THEN "CN_ZERO"
        ELSE IF ~IsSome(b.allele_lengths) THEN "DP_ZERO"
        ELSE IF total * F32One < min_norm_depth * k THEN "DP_OOR"
        ELSE IF IsSome(max_norm_depth) /\ total * F32One > Unwrap(max_norm_depth) * k
             THEN "DP_OOR"
        ELSE IF k \notin DOMAIN partitions_map THEN "CN_OOR"
        ELSE "none"

\* C11: the first precheck that applies, in the order copy_number == 0 (CN_ZERO),
\* no histogram (DP_ZERO), d < min_norm_depth (DP_OOR), max_norm_depth set and
\* d > max_norm_depth (DP_OOR), no partition entry (CN_OOR), sets its filter and
\* the call returns an error there; when none applies the call goes on to the
\* inference. A depth equal to min_norm_depth or max_norm_depth passes.
C11_PrechecksInOrder ==
    GtCalled =>
        IF FirstPrecheck # "none"
        THEN /\ gt_call.ret = "Err"
             /\ tr_region.filter = FirstPrecheck
             /\ gt_call.stage \in {"cn_zero", "dp_zero", "dp_low", "dp_high", "cn_oor"}
        ELSE GtReachedArgmin

\* a depth equal to max_norm_depth and one equal to min_norm_depth passed
C11_Witness ==
    /\ GtReachedArgmin
    /\ IsSome(max_norm_depth)
    /\ min_norm_depth = F32One
    /\ GtTotalReads = 2 * tr_region.copy_number

\* a depth equal to min_norm_depth with a maximum set passed, and CN_OOR was given
C11_WitnessCnOor ==
    /\ GtCalled
    /\ gt_call.stage = "cn_oor"
    /\ tr_region.filter = "CN_OOR"
    /\ min_norm_depth = F32One
    /\ GtTotalReads = tr_region.copy_number

\* C12: for a locus with copy_number != 0 whose histogram is absent or has a total
\* of 0 reads, estimate_genotype sets filter DP_ZERO and stores no genotype.
C12_NoReadsIsDpZero ==
    (/\ GtCalled
     /\ gt_call.before.copy_number # 0
     /\ \/ ~IsSome(gt_call.before.allele_lengths)
        \/ MapTotal(Unwrap(gt_call.before.allele_lengths),
                    DOMAIN Unwrap(gt_call.before.allele_lengths)) = 0)
        => /\ gt_call.ret = "Err"
           /\ tr_region.filter = "DP_ZERO"
           /\ tr_region.genotype = None

\* a histogram with a total of 0 reads at copy number 1 got a genotype
C12_ZeroTotalGenotyped ==
    /\ GtCalled
    /\ gt_call.ret = "Ok"
    /\ IsSome(gt_call.before.allele_lengths)
    /\ GtTotalReads = 0
    /\ IsSome(tr_region.genotype)

\* C13: when estimate_genotype returns an error the genotype is absent and the
\* filter is one of CN_ZERO, DP_ZERO, DP_OOR, CN_OOR, AMB_GT; when it returns Ok
\* the genotype is present and the filter is as before the call; copy_number, the
\* histogram and the reference coordinates are as before the call.
C13_ErrorSetsFilter ==
    GtCalled =>
        /\ gt_call.ret = "Err" =>
              /\ tr_region.genotype = None
              /\ tr_region.filter \in {"CN_ZERO", "DP_ZERO", "DP_OOR", "CN_OOR", "AMB_GT"}
        /\ gt_call.ret = "Ok" =>
              /\ IsSome(tr_region.genotype)
              /\ tr_region.filter = gt_call.before.filter
        /\ gt_call.ret \in {"Ok", "Err"}
        /\ tr_region.copy_number = gt_call.before.copy_number
        /\ tr_region.allele_lengths = gt_call.before.allele_lengths
        /\ tr_region.reference_info = gt_call.before.reference_info

\* an error from the plateau check on a locus that came in as CN_MISSING
C13_Witness ==
    /\ GtCalled
    /\ gt_call.stage = "amb_plateau"
    /\ gt_call.before.filter = "CN_MISSING"
    /\ tr_region.filter = "AMB_GT"

\* a success on a locus that came in as CN_MISSING
C13_WitnessOk ==
    /\ GtCalled
    /\ gt_call.ret = "Ok"
    /\ gt_call.before.filter = "CN_MISSING"
    /\ tr_region.filter = "CN_MISSING"
    /\ IsSome(tr_region.genotype)

\* ---- the order of the histogram map ----
\* one of the orders the map can be read in: descending count, equal counts by
\* ascending allele length
RECURSIVE AscendingTieOrder(_, _)
AscendingTieOrder(h, ks) ==
    IF ks = {} THEN <<>>
    ELSE LET x == CHOOSE y \in ks : \A z \in ks : h[y] > h[z] \/ (h[y] = h[z] /\ y <= z)
         IN  <<x>> \o AscendingTieOrder(h, ks \ {x})

\* the locus estimate_genotype leaves behind when the map is read in that order
GtResultInAscendingTieOrder ==
    LET h == gt_call.before.allele_lengths
    IN  estimate_genotype(gt_call.before,
                          IF IsSome(h) THEN AscendingTieOrder(Unwrap(h), DOMAIN Unwrap(h))
                          ELSE <<>>,
                          min_norm_depth, max_norm_depth, partitions_map).tr

C16_WitnessAmbiguous ==
    /\ GtCalled
    /\ gt_call.stage = "amb_plateau"
    /\ Cardinality(allele_freqs_as_ndarrays(gt_call.before)) > 1

\* ---- the parallel run ----
\* the chunk has been taken and the thread that took it has closed it
ChunkDone(c) == c \in claimed /\ \A t \in DOMAIN worker : worker[t].chunk # c
\* the threads that are at work on a chunk
Working == {t \in DOMAIN worker : worker[t].pc \in {"setup", "loop"}}

\* C14: whatever the number of loci, the number of threads and the interleaving, no
\* locus is run through the loop body twice, no two threads at work hold a common
\* locus, every chunk is worked through in the order of the input, the vector keeps
\* the order of the input, and a chunk that was closed has had every one of its loci
\* processed whatever errors the loci before met; when the run has completed every
\* locus has been processed exactly once.
C14_EveryLocusOnceInOrder ==
    threads > 0 =>
        /\ Len(tr_regions) = Len(run_input)
        /\ \A i \in DOMAIN tr_regions :
              /\ Len(visits[i]) <= 1
              /\ tr_regions[i].reference_info = run_input[i].reference_info
        /\ \A t1 \in Working, t2 \in Working :
              t1 # t2 => ChunkIndices(worker[t1].chunk) \cap ChunkIndices(worker[t2].chunk) = {}
        /\ \A c \in DOMAIN run_log :
              /\ \A k \in DOMAIN run_log[c] :
                    run_log[c][k] = ChunkFirst(c, Len(tr_regions), threads) + k - 1
              /\ ChunkDone(c) => Len(run_log[c]) = Cardinality(ChunkIndices(c))
        /\ RunCompleted => \A i \in DOMAIN tr_regions :
                               Len(visits[i]) = 1 /\ outcomes[i] # "none"

\* two threads have shared three loci; the first locus of the first chunk failed at
\* the fetch and the locus after it was genotyped
C14_Witness ==
    /\ RunCompleted
    /\ threads = 2
    /\ Len(tr_regions) = 3
    /\ visits[1] = visits[2]
    /\ visits[3] # visits[1]
    /\ outcomes[1] = "fetch_err"
    /\ outcomes[2] = "ok"
    /\ IsSome(tr_regions[2].genotype)

\* one chunk of three loci: the copy number of the first two could not be set
\* (tr_cn_from_cnvs failed), the third was genotyped
C14_WitnessErrorsThenOk ==
    /\ RunCompleted
    /\ threads = 1
    /\ Len(tr_regions) = 3
    /\ outcomes = <<"cn_err", "cn_err", "ok">>
    /\ IsSome(tr_regions[3].genotype)

\* C15: a locus whose filter is not PASS when the run starts is skipped by the
\* worker: no reads are fetched for it, it gets no histogram and no genotype.
C15_NonPassLociSkipped ==
    threads > 0 =>
        \A i \in DOMAIN tr_regions :
            run_input[i].filter # "PASS" =>
                /\ outcomes[i] \in {"none", "skipped"}
                /\ tr_regions[i].allele_lengths = None
                /\ tr_regions[i].genotype = None

\* a locus that came in as CN_MISSING has a histogram and a genotype after the run
C15_CnMissingGenotyped ==
    /\ RunCompleted
    /\ \E i \in DOMAIN tr_regions :
          /\ run_input[i].filter = "CN_MISSING"
          /\ tr_regions[i].filter = "CN_MISSING"
          /\ IsSome(tr_regions[i].allele_lengths)
          /\ IsSome(tr_regions[i].genotype)

\* C19: a locus whose fetch failed has the filter UNDEF, no histogram and no genotype.
C19_FetchFailureIsUndef ==
    threads > 0 =>
        \A i \in DOMAIN tr_regions :
            outcomes[i] = "fetch_err" =>
                /\ tr_regions[i].filter = "UNDEF"
                /\ tr_regions[i].allele_lengths = None
                /\ tr_regions[i].genotype = None

\* a locus whose fetch failed left the run with the filter PASS
C19_FetchFailureStaysPass ==
    /\ RunCompleted
    /\ \E i \in DOMAIN tr_regions :
          outcomes[i] = "fetch_err" /\ tr_regions[i].filter = "PASS"

\* ---- read_cnvs ----
\* the records read so far that lie on contig c, in the order of the file
RECURSIVE RecordsOn(_, _)
RecordsOn(c, recs) ==
    IF recs = <<>> THEN <<>>
    ELSE (IF Head(recs).seqname = c THEN <<Head(recs)>> ELSE <<>>) \o RecordsOn(c, Tail(recs))

\* two half-open regions share a base
RegionsOverlap(a, b) == Max(a.start, b.start) < Min(a.end, b.end)

\* ascending by start and pairwise non-overlapping
SortedAndDisjoint(l) ==
    \A i \in DOMAIN l, j \in DOMAIN l :
        i < j => l[i].start <= l[j].start /\ ~RegionsOverlap(l[i], l[j])

\* C17: for every sequence of records, a load that succeeds has read, on every
\* contig, records in ascending order of start of which no two overlap (so a file
\* with unsorted or overlapping regions makes the load fail), and the list of every
\* contig in the map is sorted by start and pairwise non-overlapping.
C17_LoadedCnvsSortedDisjoint ==
    read_cnvs_pc = "ok" =>
        /\ \A c \in Contigs : SortedAndDisjoint(RecordsOn(c, read_records))
        /\ \A c \in DOMAIN read_cnv_map : SortedAndDisjoint(read_cnv_map[c])

\* a load succeeded with two regions of one contig that share a base
C17_OverlapAccepted ==
    /\ read_cnvs_pc = "ok"
    /\ \E c \in DOMAIN read_cnv_map :
          \E i \in DOMAIN read_cnv_map[c], j \in DOMAIN read_cnv_map[c] :
              i < j /\ RegionsOverlap(read_cnv_map[c][i], read_cnv_map[c][j])

\* with records that all have start < end, the successful loads are sorted and
\* pairwise non-overlapping
C17_WellFormedRecordsSortedDisjoint ==
    (read_cnvs_pc = "ok" /\ \A i \in DOMAIN read_records :
                                read_records[i].start < read_records[i].end)
        => \A c \in DOMAIN read_cnv_map : SortedAndDisjoint(read_cnv_map[c])

\* ---- read_trs ----
\* C18: the loader returns an error for every record whose span is not a multiple
\* of its period: while the load has not failed no such record has been read, and
\* every locus in the buffer has (end - start) mod period = 0.
C18_PeriodMismatchRejected ==
    read_trs_pc \in {"reading", "ok"} =>
        /\ \A i \in DOMAIN tr_records : IsSome(get_reference_len(tr_records[i]))
        /\ \A i \in DOMAIN tr_buffer : IsSome(get_reference_len(tr_buffer[i].reference_info))

\* a load succeeded with a locus whose span is not a multiple of its period
C18_MismatchLoaded ==
    /\ read_trs_pc = "ok"
    /\ \E i \in DOMAIN tr_buffer :
          LET ri == tr_buffer[i].reference_info
          IN  (ri.end - ri.start) % ri.period # 0

\* ---- a read that fails to decode ----
\* C20: a decode error on one read only skips that read: after it the extraction
\* is still in its loop, ready to examine the remaining reads, with the counts of
\* the reads before untouched, so that the reads counted before and after the
\* faulty one make up the histogram.
C20_FaultyReadOnlySkipped ==
    (extract_pc # "idle" /\ last_outcome = "faulty") =>
        /\ extract_pc \in {"loop", "done"}
        /\ read_lengths = prev_lengths
        /\ extract_pc = "done" =>
              (IsSome(extract_region.allele_lengths) <=> n_counted >= 1)

\* the extraction has returned the error of a faulty read: the reads after it are
\* never examined and the locus has no histogram
C20_FaultyReadAborts ==
    /\ extract_pc = "err"
    /\ last_outcome = "faulty"
    /\ extract_region.allele_lengths = None

\* ---- range_overlap ----
\* the integers two closed ranges have in common
CommonPoints(a, b) == (a[1]..a[2]) \cap (b[1]..b[2])

\* C22: for two well-formed closed ranges [a,b] and [c,d], range_overlap returns
\* max(0, min(b,d) - max(a,c) + 1), which is the number of integers the ranges
\* share and never negative, and the result is the same with the ranges swapped;
\* when one of the ranges has start > end it returns an error, not a number.
C22_RangeOverlap ==
    ov_pc = "done" =>
        LET a == ov_a[1]  b == ov_a[2]  c == ov_b[1]  d == ov_b[2]
            lo == IF a >= c THEN a ELSE c
            hi == IF b <= d THEN b ELSE d
            r  == Unwrap(ov_ab)
        IN  IF a <= b /\ c <= d
            THEN /\ IsSome(r)
                 /\ Unwrap(r) = (IF hi - lo + 1 > 0 THEN hi - lo + 1 ELSE 0)
                 /\ Unwrap(r) = Cardinality(CommonPoints(ov_a, ov_b))
                 /\ Unwrap(r) >= 0
                 /\ ov_ba = ov_ab
            ELSE r = None /\ ov_ba = ov_ab

\* two well-formed ranges that share two integers went through both calls
C22_Witness ==
    /\ ov_pc = "done"
    /\ ov_a[1] < ov_b[1] /\ ov_b[1] < ov_a[2] /\ ov_a[2] < ov_b[2]
    /\ ov_ab = Some(Some(2))
    /\ ov_ba = Some(Some(2))

\* an ill-formed range got the error
C22_WitnessError ==
    /\ ov_pc = "done"
    /\ ov_a[1] > ov_a[2]
    /\ ov_ab = Some(None)

\* ---- partitions(0) and the loop of partitions(n) ----
\* C23: partitions(0) returns a matrix without any element, and a partition table
\* built for a set of copy numbers that contains 0 is built without a failure and
\* holds that matrix for 0.
C23_PartitionsOfZero ==
    /\ (p_n = 0 /\ p_pc # "entry") =>
          /\ p_pc = "done"
          /\ p_writes = <<>>
          /\ \A r \in DOMAIN results : DOMAIN results[r] = {}
    /\ p_pc = "done" =>
          LET m == make_partitions_map({0, p_n})
          IN  /\ ~partitions_panics(0)
              /\ DOMAIN m = {0, p_n}
              /\ \A r \in DOMAIN m[0] : DOMAIN m[0][r] = {}
              /\ m[p_n] = results

\* partitions(0) has returned
C23_Witness ==
    /\ p_n = 0
    /\ p_pc = "done"
    /\ DOMAIN results = {0}
    /\ results[0] = <<>>

\* the rows written so far are the last row index, the one before, ... in this order
WritesDescendFromLast ==
    \A i \in DOMAIN p_writes : p_writes[i] = NPartitionsOf(p_n) - i

C29_LoopSafety ==
    p_n >= 1 =>
        /\ p_pc # "panic"
        /\ WritesDescendFromLast
        /\ \A i \in DOMAIN p_writes : p_writes[i] \in DOMAIN results
        /\ p_pc = "loop" => (p_k # 0 /\ results_idx = NPartitionsOf(p_n) - 1 - Len(p_writes))
        /\ p_pc = "done" =>
              /\ Len(p_writes) = NPartitionsOf(p_n)
              /\ p_writes[Len(p_writes)] = 0
              /\ p_k = 0
              /\ results[0][0] = p_n
              /\ \A r \in DOMAIN results : \E i \in DOMAIN results[r] : results[r][i] # 0
        /\ (p_pc \in {"loop", "done"} /\ p_k = 0) => (p_pc = "done" /\ results_idx = 0)

\* C29: for n >= 1 the loop of partitions(n) terminates; it writes every one of the
\* N_PARTITIONS[n] rows exactly once, from the last row index down to row 0, never
\* outside the matrix; no row is left all-zero; and the iteration that writes row 0
\* is the one in which k becomes 0, the row being the partition [n].
C29_LoopTerminatesRowsOnce == []C29_LoopSafety /\ <>(p_pc = "done")

\* partitions(5) has written its 7 rows, row 0 last, with k = 0
C29_Witness ==
    /\ p_n = 5
    /\ p_pc = "done"
    /\ p_k = 0
    /\ p_writes = <<6, 5, 4, 3, 2, 1, 0>>
    /\ results[0] = [i \in 0..4 |-> IF i = 0 THEN 5 ELSE 0]


(***************************************************************************)
(* The handles of a worker and the iterators of its loci                   *)
(***************************************************************************)

\* C21: a worker that is not at work holds none of the handles it acquired at its start
\* (the alignment file, its header, its index), whether it went through its chunk to
\* the end or thread_setup failed after the file had been opened.
C21_HandlesReleasedOnEveryExit ==
    \A t \in DOMAIN worker : worker[t].pc \in {"idle", "panic"} => open_handles[t] = {}

\* the iterator calls of a chunk are well nested: a successful fetch is followed at once
\* by the one destroy of its iterator, no destroy without its fetch, nothing after the
\* close of the file
IteratorsDestroyedOnce(log) ==
    \A k \in DOMAIN log :
        /\ log[k] = "fetch_ok" => k < Len(log) /\ log[k + 1] = "hts_itr_destroy"
        /\ log[k] = "hts_itr_destroy" => k > 1 /\ log[k - 1] = "fetch_ok"
        /\ log[k] = "hts_close" => k = Len(log)

\* the loci of chunk c that got an iterator
FetchedLoci(c) == {i \in ChunkIndices(c) : outcomes[i] \in {"extract_err", "estimate_err", "ok"}}

\* C28: every iterator that a successful fetch produced is destroyed exactly once,
\* whether the extraction failed or not, before the next locus is fetched; a failed
\* fetch is followed by no destroy; the file is closed after the last destroy, and a
\* closed chunk has seen as many destroys as loci that were fetched.
C28_IteratorsDestroyedOnceBeforeClose ==
    \A c \in DOMAIN hts_log :
        /\ IteratorsDestroyedOnce(hts_log[c])
        /\ ChunkDone(c) =>
              /\ hts_log[c][Len(hts_log[c])] = "hts_close"
              /\ Cardinality({k \in DOMAIN hts_log[c] : hts_log[c][k] = "hts_itr_destroy"})
                     = Cardinality(FetchedLoci(c))

\* a closed chunk with a failed fetch, a failed extraction and a genotyped locus
C28_Witness ==
    \E c \in DOMAIN hts_log :
        /\ ChunkDone(c)
        /\ \E i, j, k \in ChunkIndices(c) :
              /\ outcomes[i] = "fetch_err"
              /\ outcomes[j] = "extract_err"
              /\ outcomes[k] = "ok"
        /\ hts_log[c][Len(hts_log[c])] = "hts_close"


(***************************************************************************)
(* The chunks of the locus vector                                          *)
(***************************************************************************)

\* the ceiling of n / w
CeilDiv(n, w) == (n + w - 1) \div w

\* the loci of the c-th of the contiguous chunks of size ceil(n / w)
CeilChunk(c, n, w) == {i \in 1..n : (c - 1) * CeilDiv(n, w) < i /\ i <= c * CeilDiv(n, w)}

\* C24: the chunk that a worker owns is one of the contiguous chunks of size
\* ceil(N / W) of the locus vector (the last one possibly shorter), for every number
\* of loci N and every number of threads W.
C24_ChunksOfCeilSize ==
    \A t \in DOMAIN worker :
        worker[t].chunk # 0 =>
            ChunkIndices(worker[t].chunk) = CeilChunk(worker[t].chunk, Len(tr_regions), threads)

\* a worker owns a chunk that is longer than ceil(N / W): W divides N
C24_ChunkLongerThanCeil ==
    \E t \in DOMAIN worker :
        /\ worker[t].chunk # 0
        /\ Cardinality(ChunkIndices(worker[t].chunk)) > CeilDiv(Len(tr_regions), threads)


(***************************************************************************)
(* The order of the histogram sorted by "freq"                             *)
(***************************************************************************)

\* the histogram the call of estimate_genotype started from
GtHistBefore == Unwrap(gt_call.before.allele_lengths)

\* C25: the allele lengths that allele_freqs_as_ndarrays(Some("freq")) hands to
\* estimate_genotype are ordered by count descending, equal counts by ascending
\* allele length, whatever order the map yields its entries in.
C25_FreqOrderTiesAscending ==
    GtReachedArgmin =>
        gt_call.allele_lengths = AscendingTieOrder(GtHistBefore, DOMAIN GtHistBefore)

\* two allele lengths of equal count came out longer one first
C25_TieLongerFirst ==
    /\ GtReachedArgmin
    /\ \E i, j \in DOMAIN gt_call.allele_lengths :
          /\ i < j
          /\ GtHistBefore[gt_call.allele_lengths[i]] = GtHistBefore[gt_call.allele_lengths[j]]
          /\ gt_call.allele_lengths[i] > gt_call.allele_lengths[j]


(***************************************************************************)
(* The allele lengths of a genotype and the zero-padded positions          *)
(***************************************************************************)

\* the positions of obs_distr that zero_pad_if_shorter filled
PaddedPositions == Len(gt_call.allele_lengths)..(tr_region.copy_number - 1)

\* C27: the row that most_likely_gt_idx returns as the one minimiser has multiplicity
\* 0 at every zero-padded position of obs_distr, so the pairing of the row with the
\* allele lengths drops no multiplicity; every allele length of an emitted genotype
\* is a key of the histogram, and the multiplicities of the genotype are those of the
\* row at the positions of the allele lengths.
C27_GenotypeFromHistogramKeys ==
    /\ GtReachedPlateaus => \A i \in PaddedPositions : GtChosenRow[i] = 0
    /\ (GtCalled /\ gt_call.ret = "Ok") =>
          LET g == Unwrap(tr_region.genotype)
          IN  /\ \A i \in DOMAIN g : g[i][1] \in DOMAIN GtHistBefore
              /\ \A j \in 0..(tr_region.copy_number - 1) :
                    GtChosenRow[j] > 0 =>
                        /\ j < Len(gt_call.allele_lengths)
                        /\ \E i \in DOMAIN g :
                              g[i] = <<gt_call.allele_lengths[j + 1], GtChosenRow[j]>>

\* a genotype was emitted for a locus with fewer allele lengths than copies
C27_Witness ==
    /\ GtCalled /\ gt_call.ret = "Ok"
    /\ Len(gt_call.allele_lengths) >= 2
    /\ tr_region.copy_number >= Len(gt_call.allele_lengths) + 2
    /\ Len(Unwrap(tr_region.genotype)) = Len(gt_call.allele_lengths)


(***************************************************************************)
(* The copy numbers load_tandem_repeats returns                            *)
(***************************************************************************)

\* the copy numbers of the returned list
ObservedSet == {observed_copy_numbers[k] : k \in DOMAIN observed_copy_numbers}

\* C30: when load_tandem_repeats has returned, every copy number up to max_cn that a
\* locus holds after the karyotype and the CNVs were applied is in the returned list,
\* the list is sorted and holds no copy number above max_cn; so a locus whose copy
\* number has no entry in the partition map built from the list (the lookup that
\* tags CN_OOR) has a copy number above max_cn.
C30_CopyNumbersCovered ==
    load_pc = "done" =>
        /\ \A i \in DOMAIN repeat_buffer :
              repeat_buffer[i].copy_number <= max_cn =>
                  repeat_buffer[i].copy_number \in ObservedSet
        /\ \A k \in DOMAIN observed_copy_numbers : observed_copy_numbers[k] <= max_cn
        /\ \A k \in 1..(Len(observed_copy_numbers) - 1) :
              observed_copy_numbers[k] < observed_copy_numbers[k + 1]
        /\ \A i \in DOMAIN repeat_buffer :
              repeat_buffer[i].copy_number \notin DOMAIN make_partitions_map(ObservedSet) =>
                  repeat_buffer[i].copy_number > max_cn

\* load_tandem_repeats returned with a locus that a CNV put above max_cn and a locus
\* that a CNV gave a copy number equal to max_cn, different from the karyotype's
C30_Witness ==
    /\ load_pc = "done"
    /\ \E i, j \in DOMAIN repeat_buffer :
          /\ repeat_buffer[i].copy_number > max_cn
          /\ repeat_buffer[i].copy_number \notin ObservedSet
          /\ repeat_buffer[j].copy_number = max_cn
          /\ repeat_buffer[j].copy_number # after_karyotype[j].copy_number
          /\ repeat_buffer[j].copy_number \in ObservedSet


(***************************************************************************)
(* The filter of a locus                                                   *)
(***************************************************************************)

\* no locus of the sequence `before` that is tagged has the filter PASS in `after`
NoneBackToPass(before, after) ==
    \A i \in DOMAIN before :
        before[i].filter # "PASS" => (i \in DOMAIN after /\ after[i].filter # "PASS")

\* a step leaves no tagged locus with PASS: the loci of the run, of load_tandem_repeats,
\* of read_trs, and the locus of a call of estimate_genotype
FilterStep ==
    /\ NoneBackToPass(tr_regions, tr_regions')
    /\ NoneBackToPass(repeat_buffer, repeat_buffer')
    /\ (tr_region # None /\ tr_region.filter # "PASS") => tr_region'.filter # "PASS"

\* C26: no step of the pipeline (karyotype application, CNV application, extraction,
\* estimation) sets the filter of a locus to PASS: a locus whose filter is a tag other
\* than PASS in one state has a tag other than PASS in every later state.
C26_NeverBackToPass == [][FilterStep]_vars

\* the run has left a locus that came in tagged CN_MISSING genotyped and still tagged,
\* and has tagged a locus that came in with PASS
C26_Witness ==
    \E i, j \in DOMAIN tr_regions :
        /\ run_input[i].filter = "CN_MISSING"
        /\ outcomes[i] = "ok"
        /\ IsSome(tr_regions[i].genotype)
        /\ tr_regions[i].filter = "CN_MISSING"
        /\ run_input[j].filter = "PASS"
        /\ outcomes[j] = "estimate_err"
        /\ tr_regions[j].filter # "PASS"

============================================================================
